---- MODULE Spec2Model ----
(***************************************************************************)
(* Model of the wake-up session brain (WakeSessionBrain): the progression  *)
(* state machine, the tool selector and the tool priority registry, and of *)
(* its callers: the realtime server's silence prompt and transcription     *)
(* callback (server.ts) and the request handlers of the chained session    *)
(* (chainedSession.ts); of the track engine (TrackEngine) with the calls   *)
(* it has in flight; and of the free-session counters of the device check  *)
(* routes (deviceCheckApi.ts).                                             *)
(*                                                                         *)
(* A transcript is a sequence of one-character strings, so that trim,      *)
(* toLowerCase, the lazy-acknowledgment regular expressions, the split on  *)
(* whitespace and the substring tests of the voice commands are computed   *)
(* as the code computes them.                                              *)
(***************************************************************************)
EXTENDS Integers, Sequences, FiniteSets, TLC

VARIABLES
    personaId,         \* this.personaId
    phase,             \* state.phase
    toolsUsed,         \* state.toolsUsed (array, in insertion order)
    toolsAvailable,    \* state.toolsAvailable (array)
    responsiveness,    \* state.responsiveness
    silenceCount,      \* state.silenceCount
    responseCount,     \* state.responseCount
    lastUserResponse,  \* state.lastUserResponse (NoResponse models null)
    escalationLevel,   \* state.escalationLevel
    preferences,       \* state.preferences
    context,           \* state.context (weather, calendar, news)
    utterances,        \* history: the number of recordUserResponse calls so far
    silences,          \* history: the number of recordSilence calls so far
    completeMarked,    \* history: markComplete has been called
    isProcessing,         \* ChainedSession.isProcessing
    conversationHistory,  \* ChainedSession.conversationHistory (the roles of its messages)
    requests,             \* the calls in flight and the position of each in its code
    brainInstruction,     \* the instruction a caller holds, from generateInstruction
                          \* until it is sent to the generative backend
    served,               \* history: the number of requests the session has received
    trackConfig,               \* TrackEngine.config (segmentOrder, calendar, news)
    currentSegmentIndex,       \* TrackState.currentSegmentIndex
    conversationMode,          \* TrackState.conversationMode
    trackConversationHistory,  \* TrackState.conversationHistory (the roles of its messages)
    recentConversation,        \* TrackState.recentConversation (the roles of its messages)
    justExitedConversation,    \* TrackState.justExitedConversation
    trackIsProcessing,         \* TrackState.isProcessing
    trackCalls,                \* the calls on the engine and the position of each in its code
    trackStarted,              \* history: the number of calls made on the engine
    deviceStore,               \* deviceStore: hashed device token -> freeSessionsUsed
    deviceResponse             \* the response of the last /device request

\* the state of a WakeSessionBrain and the history of its calls
brainVars == <<personaId, phase, toolsUsed, toolsAvailable, responsiveness,
               silenceCount, responseCount, lastUserResponse, escalationLevel,
               preferences, context, utterances, silences, completeMarked>>

\* the state of the callers of the brain
callerVars == <<isProcessing, conversationHistory, requests, brainInstruction, served>>

\* the state of a TrackEngine and of the calls made on it
trackVars == <<trackConfig, currentSegmentIndex, conversationMode, trackConversationHistory,
               recentConversation, justExitedConversation, trackIsProcessing, trackCalls,
               trackStarted>>

\* the state of the device check routes
deviceVars == <<deviceStore, deviceResponse>>

vars == <<brainVars, callerVars, trackVars, deviceVars>>

----------------------------------------------------------------------------
(* Bounds of the model *)

\* NextProgression: recordSilence is called at most MaxSilence times and
\* recordUserResponse at most MaxResponses times
MaxSilence == 9

MaxResponses == 4

\* Next: the same two limits of the runs that interleave every operation
MaxSessionSilence == 3

MaxSessionResponses == 4

\* Next: markToolUsed / generateInstruction are not called when they would make
\* toolsUsed longer than this
MaxToolsUsed == 2

\* NextRealtime: promptOnSilence runs at most MaxRealtimeSilence times and the
\* transcription callback at most MaxRealtimeResponses times
MaxRealtimeSilence == 8

MaxRealtimeResponses == 1

\* NextChained: the number of requests a session receives
MaxChainedRequests == 3

\* NextCreation: the number of calls made on a new brain
MaxCreationCalls == 2

\* NextLazy: the number of recordSilence calls of a session
MaxLazySilence == 12

\* NextLazy: the number of lazy acknowledgments of a session
MaxLazyResponses == 6

\* NextSelector: the numbers of utterances, of recordSilence calls and of
\* generateInstruction calls of a session
MaxSelectorResponses == 4

MaxSelectorSilence == 1

MaxSelectorCalls == 5

\* NextContext: the numbers of utterances and of generateInstruction calls
MaxContextResponses == 2

MaxContextCalls == 2

\* NextTrack: the number of calls made on an engine
MaxTrackCalls == 4

----------------------------------------------------------------------------
(* Types *)

SessionPhase ==
    {"brain_wakeup", "soft_chat", "encouragement", "movement", "verification", "complete"}

\* The fixed order of the phases, as the union type lists them
PhaseOrder ==
    <<"brain_wakeup", "soft_chat", "encouragement", "movement", "verification", "complete">>

PhaseRank(p) == CHOOSE i \in 1..Len(PhaseOrder) : PhaseOrder[i] = p

EngagementTool ==
    {"greeting", "how_did_you_sleep", "weather", "calendar", "news", "gratitude",
     "plans_today", "interesting_fact", "gentle_story", "body_awareness", "breathing",
     "direct_question", "humor", "coffee_mention", "first_step_insight",
     "accountability", "guilt", "challenge", "sit_up_request", "stand_up_request",
     "walk_request", "coffee_walk", "movement_verify"}

ResponsivenessLevel == {"silent", "mumbling", "minimal", "conversing", "alert"}

\* null
NoResponse == <<"<null>">>

----------------------------------------------------------------------------
(* Strings as sequences of characters *)

UpperCaseLetters ==
    <<"A", "B", "C", "D", "E", "F", "G", "H", "I", "J", "K", "L", "M", "N", "O", "P",
      "Q", "R", "S", "T", "U", "V", "W", "X", "Y", "Z">>

LowerCaseLetters ==
    <<"a", "b", "c", "d", "e", "f", "g", "h", "i", "j", "k", "l", "m", "n", "o", "p",
      "q", "r", "s", "t", "u", "v", "w", "x", "y", "z">>

\* the characters \s matches and trim() removes (those the inputs use)
WhiteSpace == {" ", "\t", "\n"}

LowerChar(c) ==
    IF \E i \in 1..Len(UpperCaseLetters) : UpperCaseLetters[i] = c
    THEN LowerCaseLetters[CHOOSE i \in 1..Len(UpperCaseLetters) : UpperCaseLetters[i] = c]
    ELSE c

\* String.prototype.toLowerCase
ToLowerCase(s) == [i \in 1..Len(s) |-> LowerChar(s[i])]

\* String.prototype.trim
Trim(s) ==
    LET keep == {i \in 1..Len(s) : s[i] \notin WhiteSpace}
    IN  IF keep = {} THEN <<>>
        ELSE LET first == CHOOSE i \in keep : \A j \in keep : i <= j
                 last  == CHOOSE i \in keep : \A j \in keep : j <= i
             IN  SubSeq(s, first, last)

\* String.prototype.includes
Includes(s, sub) ==
    \E i \in 1..(Len(s) - Len(sub) + 1) : SubSeq(s, i, i + Len(sub) - 1) = sub

\* s.split(/\s+/): the pieces between the maximal runs of whitespace, the empty
\* pieces before a leading run and after a trailing run included; [""] for "".
RECURSIVE SplitFrom(_, _, _)
SplitFrom(s, i, piece) ==
    IF i > Len(s) THEN <<piece>>
    ELSE IF s[i] \in WhiteSpace
         THEN IF i > 1 /\ s[i - 1] \in WhiteSpace
              THEN SplitFrom(s, i + 1, piece)
              ELSE <<piece>> \o SplitFrom(s, i + 1, <<>>)
         ELSE SplitFrom(s, i + 1, Append(piece, s[i]))

SplitWhitespace(s) == SplitFrom(s, 1, <<>>)

----------------------------------------------------------------------------
(* Classification of a transcript (recordUserResponse) *)

\* /^(ok|okay|k|yes|yeah|yea|yep|no|nope|nah|mm|mmm|mhm|hmm|uh|um|ah|oh)\.?$/i
LazyWords1 ==
    {<<"o", "k">>, <<"o", "k", "a", "y">>, <<"k">>, <<"y", "e", "s">>,
     <<"y", "e", "a", "h">>, <<"y", "e", "a">>, <<"y", "e", "p">>, <<"n", "o">>,
     <<"n", "o", "p", "e">>, <<"n", "a", "h">>, <<"m", "m">>, <<"m", "m", "m">>,
     <<"m", "h", "m">>, <<"h", "m", "m">>, <<"u", "h">>, <<"u", "m">>, <<"a", "h">>,
     <<"o", "h">>}

\* /^(sure|fine|alright|right|cool)\.?$/i
LazyWords2 ==
    {<<"s", "u", "r", "e">>, <<"f", "i", "n", "e">>,
     <<"a", "l", "r", "i", "g", "h", "t">>, <<"r", "i", "g", "h", "t">>,
     <<"c", "o", "o", "l">>}

\* pattern.test(s) for /^(w1|w2|...)\.?$/i: the whole of s is one of the words
\* (whatever the case of its letters), optionally followed by one full stop
TestPattern(words, s) ==
    \/ ToLowerCase(s) \in words
    \/ /\ Len(s) > 0
       /\ s[Len(s)] = "."
       /\ ToLowerCase(SubSeq(s, 1, Len(s) - 1)) \in words

\* lazyPatterns.some(pattern => pattern.test(lower))
IsLazy(lower) == TestPattern(LazyWords1, lower) \/ TestPattern(LazyWords2, lower)

\* mutant: the transcript split at every single whitespace character
WordCountAtEachSpace(transcript) ==
    1 + Cardinality({i \in 1..Len(Trim(transcript)) : Trim(transcript)[i] \in WhiteSpace})

\* transcript.trim().split(/\s+/).length
WordCount(transcript) == Len(SplitWhitespace(Trim(transcript)))

\* mutant: the word count is tested before the lazy patterns
ClassifyWordCountFirst(transcript) ==
    LET lower == ToLowerCase(Trim(transcript))
        wordCount == WordCount(transcript)
    IN  IF wordCount <= 3 THEN "conversing"
        ELSE IF IsLazy(lower) THEN "minimal"
        ELSE IF wordCount <= 6 THEN "conversing"
        ELSE "alert"

\* mutant: a reply of at most three words is mumbling
ClassifyShortAsMumbling(transcript) ==
    LET lower == ToLowerCase(Trim(transcript))
        wordCount == WordCount(transcript)
    IN  IF IsLazy(lower) THEN "minimal"
        ELSE IF wordCount <= 3 THEN "mumbling"
        ELSE IF wordCount <= 6 THEN "conversing"
        ELSE "alert"

\* the if / else if chain that determines state.responsiveness
Classify(transcript) ==
    LET lower == ToLowerCase(Trim(transcript))
        wordCount == WordCount(transcript)
    IN  IF IsLazy(lower) THEN "minimal"
        ELSE IF wordCount <= 3 THEN "conversing"
        ELSE IF wordCount <= 6 THEN "conversing"
        ELSE "alert"

----------------------------------------------------------------------------
(* Voice commands (checkVoiceCommands) *)

SkipNewsPhrases == {<<"s", "k", "i", "p", " ", "n", "e", "w", "s">>,
                    <<"n", "o", " ", "n", "e", "w", "s">>}

SkipWeatherPhrases == {<<"s", "k", "i", "p", " ", "w", "e", "a", "t", "h", "e", "r">>,
                       <<"n", "o", " ", "w", "e", "a", "t", "h", "e", "r">>}

WakePhrases == {<<"i", "'", "m", " ", "a", "w", "a", "k", "e">>,
                <<"i", " ", "a", "m", " ", "a", "w", "a", "k", "e">>,
                <<"i", "'", "m", " ", "u", "p">>}

\* mutant: the transcript is searched as it is, not in lower case
IncludesAnyCaseSensitive(transcript, phrases) ==
    \E p \in phrases : Includes(transcript, p)

\* lower.includes(p1) || lower.includes(p2) || ..., lower = transcript.toLowerCase()
IncludesAny(transcript, phrases) ==
    \E p \in phrases : Includes(ToLowerCase(transcript), p)

HasSkipNews(transcript) == IncludesAny(transcript, SkipNewsPhrases)

HasSkipWeather(transcript) == IncludesAny(transcript, SkipWeatherPhrases)

HasWakeDeclaration(transcript) == IncludesAny(transcript, WakePhrases)

\* what recordUserResponse and checkVoiceCommands compute from the transcript
Hear(transcript) ==
    [responsiveness |-> Classify(transcript),
     skipNews |-> HasSkipNews(transcript),
     skipWeather |-> HasSkipWeather(transcript),
     awake |-> HasWakeDeclaration(transcript)]

\* the phase checkVoiceCommands leaves, entered with phase ph
VoiceCommandPhase(heard, ph) ==
    IF heard.awake THEN "verification" ELSE ph

\* mutant: a skip command toggles the preference
VoiceCommandPreferencesToggle(heard, prefs) ==
    [prefs EXCEPT
        !.includeNews = IF heard.skipNews THEN ~@ ELSE @,
        !.includeWeather = IF heard.skipWeather THEN ~@ ELSE @]

\* the preferences checkVoiceCommands leaves
VoiceCommandPreferences(heard, prefs) ==
    [prefs EXCEPT
        !.includeNews = IF heard.skipNews THEN FALSE ELSE @,
        !.includeWeather = IF heard.skipWeather THEN FALSE ELSE @]

----------------------------------------------------------------------------
(* The progression rules *)

Max(a, b) == IF a >= b THEN a ELSE b

Min(a, b) == IF a <= b THEN a ELSE b

\* Math.max(0, escalationLevel - 1), on any utterance
LoweredEscalation(e) == Max(0, e - 1)

\* mutant: no floor at 0
LazySilenceCountNoFloor(sc) == sc - 2

\* mutant: a lazy acknowledgment resets the silence count as a genuine one does
LazySilenceCountReset(sc) == 0

\* Math.max(0, silenceCount - 2), on a lazy acknowledgment
LazySilenceCount(sc) == Max(0, sc - 2)

\* mutant: leaving brain_wakeup needs two responses, as leaving soft_chat does
EngagedPhaseNeedsTwo(ph, rc) ==
    IF ph = "brain_wakeup" /\ rc >= 2 THEN "soft_chat"
    ELSE IF ph = "soft_chat" /\ rc >= 2 THEN "encouragement"
    ELSE IF ph = "encouragement" /\ rc >= 4 THEN "movement"
    ELSE ph

\* mutant: the thresholds are tested against the count before its increment
EngagedPhaseCountBefore(ph, rc) ==
    IF ph = "brain_wakeup" THEN "soft_chat"
    ELSE IF ph = "soft_chat" /\ rc - 1 >= 2 THEN "encouragement"
    ELSE IF ph = "encouragement" /\ rc - 1 >= 4 THEN "movement"
    ELSE ph

\* mutant: the rule of the phase just entered is applied in the same call
EngagedPhaseCascading(ph, rc) ==
    LET first == IF ph = "brain_wakeup" THEN "soft_chat" ELSE ph
        second == IF first = "soft_chat" /\ rc >= 2 THEN "encouragement" ELSE first
    IN  IF second = "encouragement" /\ rc >= 4 THEN "movement" ELSE second

\* the forward transition of a conversing/alert utterance; rc is the response
\* count after its increment
EngagedPhase(ph, rc) ==
    IF ph = "brain_wakeup" THEN "soft_chat"
    ELSE IF ph = "soft_chat" /\ rc >= 2 THEN "encouragement"
    ELSE IF ph = "encouragement" /\ rc >= 4 THEN "movement"
    ELSE ph

\* mutant: every silence raises the level, up to 4, in the first four phases
SilenceEscalationUncapped(ph, sc, e) ==
    IF ph \in {"brain_wakeup", "soft_chat", "encouragement", "movement"}
    THEN Min(4, e + 1)
    ELSE e

\* mutant: the cap of movement is that of encouragement
SilenceEscalationCapThree(ph, sc, e) ==
    IF ph = "brain_wakeup" THEN (IF sc >= 4 THEN 1 ELSE e)
    ELSE IF ph = "soft_chat" THEN (IF sc >= 3 THEN Min(2, e + 1) ELSE e)
    ELSE IF ph = "encouragement" THEN Min(3, e + 1)
    ELSE IF ph = "movement" THEN Min(3, e + 1)
    ELSE e

\* mutant: the last branch escalates in every remaining phase
SilenceEscalationEveryPhase(ph, sc, e) ==
    IF ph = "brain_wakeup" THEN (IF sc >= 4 THEN 1 ELSE e)
    ELSE IF ph = "soft_chat" THEN (IF sc >= 3 THEN Min(2, e + 1) ELSE e)
    ELSE IF ph = "encouragement" THEN Min(3, e + 1)
    ELSE Min(4, e + 1)

\* recordSilence: the escalation level left, sc being the count after its increment
SilenceEscalation(ph, sc, e) ==
    IF ph = "brain_wakeup" THEN (IF sc >= 4 THEN 1 ELSE e)
    ELSE IF ph = "soft_chat" THEN (IF sc >= 3 THEN Min(2, e + 1) ELSE e)
    ELSE IF ph = "encouragement" THEN Min(3, e + 1)
    ELSE IF ph = "movement" THEN Min(4, e + 1)
    ELSE e

\* mutant: brain_wakeup is left after more than four silences
SilencePhaseOffByOne(ph, sc) ==
    IF ph = "brain_wakeup" THEN (IF sc > 4 THEN "soft_chat" ELSE ph)
    ELSE IF ph = "soft_chat" THEN (IF sc >= 6 THEN "encouragement" ELSE ph)
    ELSE IF ph = "encouragement" THEN (IF sc >= 8 THEN "movement" ELSE ph)
    ELSE ph

\* mutant: long silence in movement goes on to verification
SilencePhaseBeyondMovement(ph, sc) ==
    IF ph = "brain_wakeup" THEN (IF sc >= 4 THEN "soft_chat" ELSE ph)
    ELSE IF ph = "soft_chat" THEN (IF sc >= 6 THEN "encouragement" ELSE ph)
    ELSE IF ph = "encouragement" THEN (IF sc >= 8 THEN "movement" ELSE ph)
    ELSE IF ph = "movement" THEN (IF sc >= 9 THEN "verification" ELSE ph)
    ELSE ph

\* recordSilence: the phase left, sc being the count after its increment
SilencePhase(ph, sc) ==
    IF ph = "brain_wakeup" THEN (IF sc >= 4 THEN "soft_chat" ELSE ph)
    ELSE IF ph = "soft_chat" THEN (IF sc >= 6 THEN "encouragement" ELSE ph)
    ELSE IF ph = "encouragement" THEN (IF sc >= 8 THEN "movement" ELSE ph)
    ELSE ph

----------------------------------------------------------------------------
(* The tool priority registry and the tool selector *)

KnownPersonas == {"zen-guide", "morning-coach", "strict-sergeant"}

\* TOOL_PRIORITY[persona][ph], for a persona that has a table
ToolPriorityTable(persona, ph) ==
    IF persona = "zen-guide" THEN
        CASE ph = "brain_wakeup" ->
                <<"greeting", "breathing", "body_awareness", "how_did_you_sleep", "gentle_story">>
          [] ph = "soft_chat" ->
                <<"weather", "body_awareness", "gentle_story", "gratitude", "breathing">>
          [] ph = "encouragement" ->
                <<"first_step_insight", "body_awareness", "sit_up_request", "plans_today">>
          [] ph = "movement" -> <<"sit_up_request", "stand_up_request", "walk_request">>
          [] ph = "verification" -> <<"movement_verify", "direct_question">>
          [] OTHER -> <<>>
    ELSE IF persona = "morning-coach" THEN
        CASE ph = "brain_wakeup" ->
                <<"greeting", "how_did_you_sleep", "interesting_fact", "news">>
          [] ph = "soft_chat" ->
                <<"weather", "coffee_mention", "interesting_fact", "humor", "first_step_insight">>
          [] ph = "encouragement" ->
                <<"coffee_mention", "first_step_insight", "calendar", "plans_today", "accountability">>
          [] ph = "movement" ->
                <<"coffee_walk", "first_step_insight", "sit_up_request", "stand_up_request", "walk_request">>
          [] ph = "verification" -> <<"movement_verify", "coffee_mention">>
          [] OTHER -> <<>>
    ELSE
        CASE ph = "brain_wakeup" -> <<"greeting", "news">>
          [] ph = "soft_chat" -> <<"weather", "calendar", "direct_question", "accountability">>
          [] ph = "encouragement" -> <<"challenge", "guilt", "accountability", "sit_up_request">>
          [] ph = "movement" -> <<"stand_up_request", "walk_request", "challenge">>
          [] ph = "verification" -> <<"movement_verify", "challenge">>
          [] OTHER -> <<>>

\* mutant: the fallback table is the strict sergeant's
PriorityFallbackSergeant(persona, ph) ==
    IF persona \in KnownPersonas THEN ToolPriorityTable(persona, ph)
    ELSE ToolPriorityTable("strict-sergeant", ph)

\* TOOL_PRIORITY[personaId]?.[phase] || TOOL_PRIORITY['morning-coach'][phase]
\* (an array, even an empty one, is truthy)
Priority(persona, ph) ==
    IF persona \in KnownPersonas THEN ToolPriorityTable(persona, ph)
    ELSE ToolPriorityTable("morning-coach", ph)

\* array.includes(x)
ArrayIncludes(arr, x) == \E i \in 1..Len(arr) : arr[i] = x

\* getAvailableTools: the base array, then one push per enabled preference
GetAvailableTools(prefs) ==
    <<"greeting", "how_did_you_sleep", "gratitude", "plans_today",
      "interesting_fact", "gentle_story", "body_awareness", "breathing", "direct_question",
      "humor", "coffee_mention", "first_step_insight", "accountability", "guilt", "challenge",
      "sit_up_request", "stand_up_request", "walk_request", "coffee_walk", "movement_verify">>
    \o (IF prefs.includeWeather THEN <<"weather">> ELSE <<>>)
    \o (IF prefs.includeCalendar THEN <<"calendar">> ELSE <<>>)
    \o (IF prefs.includeNews THEN <<"news">> ELSE <<>>)
    \o (IF prefs.includeStories THEN <<"gentle_story">> ELSE <<>>)

\* mutant: push without the includes test
AddToolAlways(used, tool) == Append(used, tool)

\* markToolUsed: push unless already included
AddTool(used, tool) == IF ArrayIncludes(used, tool) THEN used ELSE Append(used, tool)

MovementRepeatables ==
    <<"walk_request", "stand_up_request", "sit_up_request", "coffee_walk",
      "first_step_insight", "direct_question", "accountability">>

ZenRepeatables ==
    <<"breathing", "body_awareness", "gentle_story", "gratitude", "direct_question">>

GeneralRepeatables ==
    <<"direct_question", "coffee_mention", "first_step_insight", "interesting_fact",
      "accountability", "challenge", "breathing", "humor">>

\* mutant: the pool by persona first, then phase
RepeatableToolsPersonaFirst(persona, ph) ==
    IF persona = "zen-guide" THEN ZenRepeatables
    ELSE IF ph = "movement" THEN MovementRepeatables
    ELSE GeneralRepeatables

\* the repeatable pool by phase, then persona
RepeatableTools(persona, ph) ==
    IF ph = "movement" THEN MovementRepeatables
    ELSE IF persona = "zen-guide" THEN ZenRepeatables
    ELSE GeneralRepeatables

\* arr.filter(x => keep.includes(x))
FilterIncluded(arr, keep) == SelectSeq(arr, LAMBDA x : ArrayIncludes(keep, x))

\* mutant: availability is not tested
CuratedCandidatesIgnoringAvailability(priority, used, avail) ==
    SelectSeq(priority, LAMBDA t : ~ArrayIncludes(used, t))

\* mutant: toolsUsed is not tested
CuratedCandidatesIgnoringUsed(priority, used, avail) ==
    SelectSeq(priority, LAMBDA t : ArrayIncludes(avail, t))

\* the tools of the priority list that are unused and available, in list order
CuratedCandidates(priority, used, avail) ==
    SelectSeq(priority, LAMBDA t : ~ArrayIncludes(used, t) /\ ArrayIncludes(avail, t))

\* null
NoTool == "<null>"

\* mutant: without the last resort of the unfiltered pool
GetNextToolNoFallback(persona, ph, used, avail, sc) ==
    LET priority == Priority(persona, ph)
        curated == CuratedCandidates(priority, used, avail)
        repeatableTools == RepeatableTools(persona, ph)
        validRepeatables == FilterIncluded(repeatableTools, priority)
    IN  IF Len(curated) > 0 THEN curated[1]
        ELSE IF Len(validRepeatables) > 0
             THEN validRepeatables[(sc % Len(validRepeatables)) + 1]
        ELSE NoTool

\* getNextTool
GetNextTool(persona, ph, used, avail, sc) ==
    LET priority == Priority(persona, ph)
        curated == CuratedCandidates(priority, used, avail)
        repeatableTools == RepeatableTools(persona, ph)
        validRepeatables == FilterIncluded(repeatableTools, priority)
    IN  IF Len(curated) > 0 THEN curated[1]
        ELSE IF Len(validRepeatables) > 0
             THEN validRepeatables[(sc % Len(validRepeatables)) + 1]
        ELSE IF Len(repeatableTools) > 0
             THEN repeatableTools[(sc % Len(repeatableTools)) + 1]
        ELSE NoTool

----------------------------------------------------------------------------
(* The instruction (generateInstruction, getVariationSuggestions) *)

\* isInitialGreeting: no tool used yet and the phase is brain_wakeup
IsInitialGreeting(used, ph) == Len(used) = 0 /\ ph = "brain_wakeup"

\* whether the instruction opens with "# USER IS SILENT - THEY SAID NOTHING"
HasSilentHeader(used, ph) == ~IsInitialGreeting(used, ph)

\* the tools that have an entry in the variations record
VariationTools == {"direct_question", "accountability", "challenge", "breathing"}

\* variations[tool], for a tool of VariationTools
Variations(tool) ==
    CASE tool = "direct_question" ->
            <<"\"Can you hear me? Just say yes or make a sound.\"",
              "\"What's the first thing you see when you open your eyes?\"",
              "\"Tell me one word - how are you feeling right now?\"",
              "\"If you could have any breakfast right now, what would it be?\"">>
      [] tool = "accountability" ->
            <<"\"You set this alarm for a reason. What was it?\"",
              "\"Remember why you wanted to wake up early today?\"",
              "\"Past-you made a decision to wake up now. Honor that.\"",
              "\"What would future-you think if you stayed in bed?\"">>
      [] tool = "challenge" ->
            <<"\"Is this the person you want to be?\"",
              "\"What would you tell a friend who couldn't get out of bed?\"",
              "\"You've done hard things before. This is just getting up.\"",
              "\"Every day is a choice. What are you choosing right now?\"">>
      [] tool = "breathing" ->
            <<"\"Take a deep breath with me... in... and out...\"",
              "\"Let's breathe together. In through the nose...\"",
              "\"One deep breath. That's all I'm asking. Ready?\"",
              "\"Breathe in energy, breathe out sleep...\"">>

\* mutant: the window wraps around the end of the list
SliceWrapping(arr, start, end) ==
    [i \in 1..(end - start) |-> arr[((start + i - 1) % Len(arr)) + 1]]

\* arr.slice(start, end) for 0 <= start <= end: the entries at the 0-based
\* indices start .. end-1 that exist
Slice(arr, start, end) ==
    [i \in 1..(Min(end, Len(arr)) - Min(start, Len(arr))) |-> arr[start + i]]

\* the line every tool without variations gets
CreativeLine == "- Be creative and vary your approach from before"

\* getVariationSuggestions(tool, silenceCount): the entries that are rendered,
\* one per line ("- " before each happens in the rendering); the single
\* CreativeLine for a tool without variations
GetVariationSuggestions(tool, sc) ==
    IF tool \in VariationTools
    THEN LET toolVariations == Variations(tool)
             startIdx == sc % Len(toolVariations)
         IN  Slice(toolVariations, startIdx, startIdx + 2)
    ELSE <<CreativeLine>>

----------------------------------------------------------------------------
(* Inputs *)

\* "ok"
T_Ok == <<"o", "k">>
\* "Yeah."
T_YeahDot == <<"Y", "e", "a", "h", ".">>
\* " Mm\n"
T_MmPadded == <<" ", "M", "m", "\n">>
\* "Good morning"
T_GoodMorning == <<"G", "o", "o", "d", " ", "m", "o", "r", "n", "i", "n", "g">>
\* "okay then"
T_OkayThen == <<"o", "k", "a", "y", " ", "t", "h", "e", "n">>
\* "a b  c  d e\tf" (six words)
T_SixWords == <<"a", " ", "b", " ", " ", "c", " ", " ", "d", " ", "e", "\t", "f">>
\* "SURE."
T_Sure == <<"S", "U", "R", "E", ".">>
\* "a b c d e f g" (seven words)
T_SevenWords == <<"a", " ", "b", " ", "c", " ", "d", " ", "e", " ", "f", " ", "g">>
\* "I'm awake"
T_ImAwake == <<"I", "'", "m", " ", "a", "w", "a", "k", "e">>
\* "well I AM AWAKE now ok yes really"
T_IAmAwakeLong ==
    <<"w", "e", "l", "l", " ", "I", " ", "A", "M", " ", "A", "W", "A", "K", "E", " ",
      "n", "o", "w", " ", "o", "k", " ", "y", "e", "s", " ", "r", "e", "a", "l", "l", "y">>
\* "I'm upset"
T_ImUpset == <<"I", "'", "m", " ", "u", "p", "s", "e", "t">>
\* "Skip news"
T_SkipNews == <<"S", "k", "i", "p", " ", "n", "e", "w", "s">>
\* "no weather today please"
T_NoWeather ==
    <<"n", "o", " ", "w", "e", "a", "t", "h", "e", "r", " ", "t", "o", "d", "a", "y", " ",
      "p", "l", "e", "a", "s", "e">>

\* the transcripts recordUserResponse is called with; its callers pass only
\* transcripts that hold a character other than whitespace
Transcripts ==
    {T_Ok, T_YeahDot, T_MmPadded, T_Sure, T_GoodMorning, T_OkayThen, T_SixWords, T_SevenWords,
     T_ImAwake, T_IAmAwakeLong, T_ImUpset, T_SkipNews, T_NoWeather}

\* the transcripts of the runs that interleave every operation of the session
SessionTranscripts == {T_Ok, T_GoodMorning, T_ImAwake}

\* the personas a session is created with; "night-owl" has no priority table
PersonaInputs == {"zen-guide", "morning-coach", "strict-sergeant", "night-owl"}

\* the preferences a session is created with
PreferenceInputs ==
    {[includeNews |-> TRUE, includeWeather |-> TRUE,
      includeCalendar |-> TRUE, includeStories |-> TRUE],
     [includeNews |-> FALSE, includeWeather |-> FALSE,
      includeCalendar |-> FALSE, includeStories |-> FALSE]}

\* the tools markToolUsed is called with by a caller
MarkInputs == {"weather", "greeting"}

\* Hear, tabulated over the inputs
Heard == [t \in Transcripts |-> Hear(t)]

----------------------------------------------------------------------------
(* The calls in flight *)

\* a session serves at most this many calls at once in the model
Slots == {1, 2}

\* a slot without a call
IdleRequest == [kind |-> "idle", pc |-> "idle", userMessage |-> NoResponse]

\* no instruction is held
NoInstruction == [kind |-> "none"]

\* messages[0].content of the initial greeting, which replaces the brain's instruction
GreetingOverride == [kind |-> "initial_greeting"]

\* the positions inside a synchronous stretch of code: a call at one of them
\* runs on before any other callback of the process does
SyncPositions == {"record_silence", "generate_instruction", "record_event", "send"}

MidSync == \E r \in Slots : requests[r].pc \in SyncPositions

----------------------------------------------------------------------------
(* The context of a session *)

\* an optional field that is not given
Undefined == "<undefined>"

\* a string in a condition: undefined and the empty string are falsy
Truthy(str) == str # Undefined /\ str # ""

\* a context without weather, calendar or news
NoContext == [weather |-> Undefined, calendar |-> Undefined, news |-> Undefined]

\* the contexts a session is created with
ContextInputs ==
    [weather : {Undefined, "", "Sunny, 18 degrees"},
     calendar : {Undefined, "Standup at 9"},
     news : {Undefined, "", "Markets are up"}]

----------------------------------------------------------------------------
(* The track engine: configuration and construction *)

\* a track with a disabled segment, a call to action and music after it;
\* calendar and news hold the numbers of events and of items
TrackWithCallToAction ==
    [segmentOrder |->
        <<[type |-> "greeting", enabled |-> TRUE],
          [type |-> "weather", enabled |-> FALSE],
          [type |-> "fact", enabled |-> TRUE],
          [type |-> "callToAction", enabled |-> TRUE],
          [type |-> "music", enabled |-> TRUE]>>,
     calendar |-> 0,
     news |-> 0]

\* a track without call to action, with news items and without calendar events
TrackWithoutCallToAction ==
    [segmentOrder |->
        <<[type |-> "greeting", enabled |-> TRUE],
          [type |-> "news", enabled |-> TRUE],
          [type |-> "calendar", enabled |-> TRUE],
          [type |-> "fact", enabled |-> TRUE]>>,
     calendar |-> 0,
     news |-> 2]

\* the configurations an engine is created with
TrackConfigInputs == {TrackWithCallToAction, TrackWithoutCallToAction}

\* a slot without a call on the engine; outcome is what the last call of the
\* slot gave its caller
IdleCall == [kind |-> "idle", pc |-> "idle", outcome |-> "none"]

\* new TrackEngine(config), no call made yet
TrackInitial(config) ==
    /\ trackConfig = config
    /\ currentSegmentIndex = 0
    /\ conversationMode = FALSE
    /\ trackConversationHistory = <<>>
    /\ recentConversation = <<>>
    /\ justExitedConversation = FALSE
    /\ trackIsProcessing = FALSE
    /\ trackCalls = [r \in Slots |-> IdleCall]
    /\ trackStarted = 0

----------------------------------------------------------------------------
(* The device check routes: the store *)

\* deviceStore = new Map(), no request served yet
DeviceInitial ==
    /\ deviceStore = [h \in {} |-> 0]
    /\ deviceResponse = [status |-> 0]

----------------------------------------------------------------------------
(* The session *)

\* new WakeSessionBrain(personaId, preferences, context), in a session whose
\* caller has done nothing yet (createChainedSession: isProcessing false,
\* conversationHistory empty)
InitSession ==
    /\ personaId \in PersonaInputs
    /\ preferences \in PreferenceInputs
    /\ phase = "brain_wakeup"
    /\ toolsUsed = <<>>
    /\ toolsAvailable = GetAvailableTools(preferences)
    /\ responsiveness = "silent"
    /\ silenceCount = 0
    /\ responseCount = 0
    /\ lastUserResponse = NoResponse
    /\ escalationLevel = 0
    /\ utterances = 0
    /\ silences = 0
    /\ completeMarked = FALSE
    /\ isProcessing = FALSE
    /\ conversationHistory = <<>>
    /\ requests = [r \in Slots |-> IdleRequest]
    /\ brainInstruction = NoInstruction
    /\ served = 0
    /\ context = NoContext

\* a session, beside an engine and a device store nobody uses
Init ==
    /\ InitSession
    /\ TrackInitial(TrackWithCallToAction)
    /\ DeviceInitial

\* conversing or alert: the branch that resets the silence count
IsEngaged(resp) == resp = "conversing" \/ resp = "alert"

\* mutant: only genuine utterances are counted
ResponseCountGenuineOnly(heard, rc) ==
    IF heard.responsiveness = "minimal" THEN rc ELSE rc + 1

\* recordUserResponse: this.state.responseCount++
ResponseCountAfter(heard, rc) == rc + 1

\* recordUserResponse: the silence count left
ResponseSilenceCount(heard, sc) ==
    IF IsEngaged(heard.responsiveness) THEN 0
    ELSE IF heard.responsiveness = "minimal" THEN LazySilenceCount(sc)
    ELSE sc

\* mutant: only a genuine utterance lowers the level
ResponseEscalationGenuineOnly(heard, e) ==
    IF IsEngaged(heard.responsiveness) THEN LoweredEscalation(e) ELSE e

\* recordUserResponse: the escalation level left
ResponseEscalation(heard, e) ==
    IF IsEngaged(heard.responsiveness) \/ heard.responsiveness = "minimal"
    THEN LoweredEscalation(e)
    ELSE e

\* recordUserResponse: the phase left (forward transition, then voice commands);
\* rc is the response count after its increment
ResponsePhase(heard, ph, rc) ==
    VoiceCommandPhase(heard,
        IF IsEngaged(heard.responsiveness) THEN EngagedPhase(ph, rc) ELSE ph)

\* recordUserResponse(transcript)
RecordUserResponse(transcript) ==
    /\ responseCount' = ResponseCountAfter(Heard[transcript], responseCount)
    /\ lastUserResponse' = transcript
    /\ responsiveness' = Heard[transcript].responsiveness
    /\ silenceCount' = ResponseSilenceCount(Heard[transcript], silenceCount)
    /\ escalationLevel' = ResponseEscalation(Heard[transcript], escalationLevel)
    /\ phase' = ResponsePhase(Heard[transcript], phase, responseCount')
    /\ preferences' = VoiceCommandPreferences(Heard[transcript], preferences)
    /\ utterances' = utterances + 1
    /\ UNCHANGED <<personaId, context, toolsUsed, toolsAvailable, silences, completeMarked>>

\* recordSilence()
RecordSilence ==
    /\ silenceCount' = silenceCount + 1
    /\ responsiveness' = "silent"
    /\ escalationLevel' = SilenceEscalation(phase, silenceCount', escalationLevel)
    /\ phase' = SilencePhase(phase, silenceCount')
    /\ silences' = silences + 1
    /\ UNCHANGED <<personaId, context, toolsUsed, toolsAvailable, responseCount,
                   lastUserResponse, preferences, utterances, completeMarked>>

\* markToolUsed(tool)
MarkToolUsed(tool) ==
    /\ toolsUsed' = AddTool(toolsUsed, tool)
    /\ UNCHANGED <<personaId, context, phase, toolsAvailable, responsiveness, silenceCount,
                   responseCount, lastUserResponse, escalationLevel, preferences,
                   utterances, silences, completeMarked>>

\* the tool generateInstruction selects: this.getNextTool()
NextTool == GetNextTool(personaId, phase, toolsUsed, toolsAvailable, silenceCount)

\* generateInstruction(): its effect on the session is to mark the selected tool
GenerateInstruction ==
    /\ toolsUsed' = IF NextTool # NoTool THEN AddTool(toolsUsed, NextTool) ELSE toolsUsed
    /\ UNCHANGED <<personaId, context, phase, toolsAvailable, responsiveness, silenceCount,
                   responseCount, lastUserResponse, escalationLevel, preferences,
                   utterances, silences, completeMarked>>

\* markComplete()
MarkComplete ==
    /\ phase' = "complete"
    /\ completeMarked' = TRUE
    /\ UNCHANGED <<personaId, context, toolsUsed, toolsAvailable, responsiveness, silenceCount,
                   responseCount, lastUserResponse, escalationLevel, preferences,
                   utterances, silences>>

\* isComplete()
IsComplete == phase = "complete"

\* every operation of a session, the utterances drawn from SessionTranscripts
Next ==
    /\ UNCHANGED <<callerVars, trackVars, deviceVars>>
    /\ \/ /\ utterances < MaxSessionResponses
          /\ \E transcript \in SessionTranscripts : RecordUserResponse(transcript)
       \/ /\ silences < MaxSessionSilence
          /\ RecordSilence
       \/ \E tool \in MarkInputs : MarkToolUsed(tool) /\ Len(toolsUsed') <= MaxToolsUsed
       \/ GenerateInstruction /\ Len(toolsUsed') <= MaxToolsUsed
       \/ MarkComplete

Spec == Init /\ [][Next]_vars

\* the progression state machine alone, the utterances drawn from Transcripts
NextProgression ==
    /\ UNCHANGED <<callerVars, trackVars, deviceVars>>
    /\ \/ /\ utterances < MaxResponses
          /\ \E transcript \in Transcripts : RecordUserResponse(transcript)
       \/ /\ silences < MaxSilence
          /\ RecordSilence
       \/ MarkComplete

SpecProgression == Init /\ [][NextProgression]_vars

\* the transcripts of a sleeper who only acknowledges
LazyInputs == {T_Ok, T_YeahDot, T_MmPadded, T_Sure}

\* silence prompts and acknowledgments only: recordSilence and the minimal
\* branch of recordUserResponse, in any order
NextLazy ==
    /\ UNCHANGED <<callerVars, trackVars, deviceVars>>
    /\ \/ /\ silences < MaxLazySilence
          /\ RecordSilence
       \/ /\ utterances < MaxLazyResponses
          /\ \E transcript \in LazyInputs : RecordUserResponse(transcript)

SpecLazy == Init /\ [][NextLazy]_vars

----------------------------------------------------------------------------
(* Creation, for every combination of preferences *)

\* every combination of the four toggles
CreationPreferences ==
    [includeNews : BOOLEAN, includeWeather : BOOLEAN,
     includeCalendar : BOOLEAN, includeStories : BOOLEAN]

\* mutant: the session starts as if one silence had been recorded
NewStateAfterSilence(prefs) ==
    [phase |-> "brain_wakeup",
     toolsUsed |-> <<>>,
     toolsAvailable |-> GetAvailableTools(prefs),
     responsiveness |-> "silent",
     silenceCount |-> 1,
     responseCount |-> 0,
     lastUserResponse |-> NoResponse,
     escalationLevel |-> 0,
     preferences |-> prefs]

\* this.state = { ... } of the constructor
NewState(prefs) ==
    [phase |-> "brain_wakeup",
     toolsUsed |-> <<>>,
     toolsAvailable |-> GetAvailableTools(prefs),
     responsiveness |-> "silent",
     silenceCount |-> 0,
     responseCount |-> 0,
     lastUserResponse |-> NoResponse,
     escalationLevel |-> 0,
     preferences |-> prefs]

\* new WakeSessionBrain(personaId, preferences, context) for every persona and
\* every combination of preferences; no call has been made
InitCreation ==
    /\ personaId \in PersonaInputs
    /\ \E prefs \in CreationPreferences :
            /\ phase = NewState(prefs).phase
            /\ toolsUsed = NewState(prefs).toolsUsed
            /\ toolsAvailable = NewState(prefs).toolsAvailable
            /\ responsiveness = NewState(prefs).responsiveness
            /\ silenceCount = NewState(prefs).silenceCount
            /\ responseCount = NewState(prefs).responseCount
            /\ lastUserResponse = NewState(prefs).lastUserResponse
            /\ escalationLevel = NewState(prefs).escalationLevel
            /\ preferences = NewState(prefs).preferences
    /\ utterances = 0
    /\ silences = 0
    /\ completeMarked = FALSE
    /\ isProcessing = FALSE
    /\ conversationHistory = <<>>
    /\ requests = [r \in Slots |-> IdleRequest]
    /\ brainInstruction = NoInstruction
    /\ served = 0
    /\ context = NoContext
    /\ TrackInitial(TrackWithCallToAction)
    /\ DeviceInitial

\* the first calls on a new brain, each counted in served
NextCreation ==
    /\ served < MaxCreationCalls
    /\ served' = served + 1
    /\ UNCHANGED <<isProcessing, conversationHistory, requests, brainInstruction>>
    /\ UNCHANGED <<trackVars, deviceVars>>
    /\ \/ \E transcript \in SessionTranscripts : RecordUserResponse(transcript)
       \/ RecordSilence
       \/ \E tool \in MarkInputs : MarkToolUsed(tool)
       \/ GenerateInstruction
       \/ MarkComplete

SpecCreation == InitCreation /\ [][NextCreation]_vars

----------------------------------------------------------------------------
(* The callers of the brain *)

\* mutant: a context string that is given is appended whatever the preference
RenderInstructionIgnoringPreferences ==
    [kind |-> "brain",
     silentHeader |-> HasSilentHeader(toolsUsed, phase),
     phase |-> phase,
     escalation |-> escalationLevel,
     silenceCount |-> silenceCount,
     nextTool |-> NextTool,
     variations |-> IF NextTool # NoTool
                    THEN GetVariationSuggestions(NextTool, silenceCount)
                    ELSE <<>>,
     weatherInfo |-> IF Truthy(context.weather) THEN context.weather ELSE Undefined,
     calendarInfo |-> IF Truthy(context.calendar) THEN context.calendar ELSE Undefined,
     newsInfo |-> IF Truthy(context.news) THEN context.news ELSE Undefined]

\* what generateInstruction renders from the state it is called in: the
\* header, the phase, the escalation and silence-count line, the next
\* approach and its variation ideas, and the "AVAILABLE INFO" lines of the
\* context (Undefined for a line that is not appended)
RenderInstruction ==
    [kind |-> "brain",
     silentHeader |-> HasSilentHeader(toolsUsed, phase),
     phase |-> phase,
     escalation |-> escalationLevel,
     silenceCount |-> silenceCount,
     nextTool |-> NextTool,
     variations |-> IF NextTool # NoTool
                    THEN GetVariationSuggestions(NextTool, silenceCount)
                    ELSE <<>>,
     weatherInfo |-> IF Truthy(context.weather) /\ preferences.includeWeather
                     THEN context.weather ELSE Undefined,
     calendarInfo |-> IF Truthy(context.calendar) /\ preferences.includeCalendar
                      THEN context.calendar ELSE Undefined,
     newsInfo |-> IF Truthy(context.news) /\ preferences.includeNews
                  THEN context.news ELSE Undefined]

\* const instruction = brain.generateInstruction()
CallGenerateInstruction ==
    /\ GenerateInstruction
    /\ brainInstruction' = RenderInstruction

(* The realtime server (server.ts): one websocket connection owns the brain *)

\* promptOnSilence, first statement: sessionBrain.recordSilence()
PromptRecordSilence ==
    /\ ~MidSync
    /\ requests[1] = IdleRequest
    /\ RecordSilence
    /\ requests' = [requests EXCEPT ![1] =
                        [kind |-> "prompt", pc |-> "generate_instruction",
                         userMessage |-> NoResponse]]
    /\ UNCHANGED <<isProcessing, conversationHistory, brainInstruction, served>>

\* promptOnSilence: const instruction = sessionBrain.generateInstruction()
PromptGenerateInstruction ==
    /\ requests[1].kind = "prompt"
    /\ requests[1].pc = "generate_instruction"
    /\ CallGenerateInstruction
    /\ requests' = [requests EXCEPT ![1].pc = "send"]
    /\ UNCHANGED <<isProcessing, conversationHistory, served>>

\* promptOnSilence: realtimeSession.ws.send(response.create with the instruction)
PromptSend ==
    /\ requests[1].kind = "prompt"
    /\ requests[1].pc = "send"
    /\ requests' = [requests EXCEPT ![1] = IdleRequest]
    /\ brainInstruction' = NoInstruction
    /\ UNCHANGED <<brainVars, isProcessing, conversationHistory, served>>

\* conversation.item.input_audio_transcription.completed with a transcript
\* that is not blank: sessionBrain.recordUserResponse(transcript)
TranscriptionCompleted(transcript) ==
    /\ ~MidSync
    /\ Trim(transcript) # <<>>
    /\ RecordUserResponse(transcript)
    /\ UNCHANGED callerVars

\* the owner of the brain ends the session
EndSession ==
    /\ ~MidSync
    /\ MarkComplete
    /\ UNCHANGED callerVars

\* the transcripts of the realtime sessions
RealtimeTranscripts == {T_Ok, T_GoodMorning, T_ImAwake, T_SkipNews, T_NoWeather}

NextRealtime ==
    /\ UNCHANGED <<trackVars, deviceVars>>
    /\ \/ /\ silences < MaxRealtimeSilence
          /\ PromptRecordSilence
       \/ PromptGenerateInstruction
       \/ PromptSend
       \/ /\ utterances < MaxRealtimeResponses
          /\ \E transcript \in RealtimeTranscripts : TranscriptionCompleted(transcript)
       \/ EndSession

SpecRealtime == Init /\ [][NextRealtime]_vars

(* The chained session (chainedSession.ts), one call per request *)

\* ""
T_Empty == <<>>
\* "\"\"", a transcription of noise
T_Quotes == <<"\"", "\"">>

\* /^["]+$/.test(userMessage.trim())
IsJustQuotes(userMessage) ==
    /\ Len(Trim(userMessage)) > 0
    /\ \A i \in 1..Len(Trim(userMessage)) : Trim(userMessage)[i] = "\""

\* userMessage && userMessage.trim() && !isJustQuotes (NoResponse models null)
HasRealMessage(userMessage) ==
    /\ userMessage # NoResponse
    /\ Len(userMessage) > 0
    /\ Len(Trim(userMessage)) > 0
    /\ ~IsJustQuotes(userMessage)

\* what transcribeAudio resolves to in the model
ChainedTranscripts == {T_Empty, T_Quotes, T_GoodMorning, T_ImAwake}

\* HasRealMessage, tabulated over the messages generateResponse is called with
RealMessage == [m \in ChainedTranscripts \cup {NoResponse} |-> HasRealMessage(m)]

\* a request takes the first slot without a call
FreeSlot(r) ==
    /\ requests[r] = IdleRequest
    /\ \A q \in Slots : q < r => requests[q] # IdleRequest

\* generateGreeting up to its await: isProcessing = true, then generateResponse(session, null)
StartGreeting(r) ==
    /\ ~MidSync
    /\ FreeSlot(r)
    /\ isProcessing' = TRUE
    /\ requests' = [requests EXCEPT ![r] =
                        [kind |-> "greeting", pc |-> "generate_instruction",
                         userMessage |-> NoResponse]]
    /\ served' = served + 1
    /\ UNCHANGED <<brainVars, conversationHistory, brainInstruction>>

\* processUserAudio up to its first await: isProcessing = true, then transcribeAudio
StartRespond(r) ==
    /\ ~MidSync
    /\ FreeSlot(r)
    /\ isProcessing' = TRUE
    /\ requests' = [requests EXCEPT ![r] =
                        [kind |-> "respond", pc |-> "transcribing",
                         userMessage |-> NoResponse]]
    /\ served' = served + 1
    /\ UNCHANGED <<brainVars, conversationHistory, brainInstruction>>

\* processUserAudio when transcribeAudio resolves: an empty transcript ends the
\* call (finally: isProcessing = false), any other enters generateResponse
TranscriptionReturns(r, transcript) ==
    /\ ~MidSync
    /\ requests[r].kind = "respond"
    /\ requests[r].pc = "transcribing"
    /\ IF Len(transcript) = 0
       THEN /\ requests' = [requests EXCEPT ![r] = IdleRequest]
            /\ isProcessing' = FALSE
       ELSE /\ requests' = [requests EXCEPT ![r] =
                                [kind |-> "respond", pc |-> "generate_instruction",
                                 userMessage |-> transcript]]
            /\ UNCHANGED isProcessing
    /\ UNCHANGED <<brainVars, conversationHistory, brainInstruction, served>>

\* handleSilence, first statement: isProcessing = true
StartSilence(r) ==
    /\ ~MidSync
    /\ FreeSlot(r)
    /\ isProcessing' = TRUE
    /\ requests' = [requests EXCEPT ![r] =
                        [kind |-> "silence", pc |-> "record_silence",
                         userMessage |-> NoResponse]]
    /\ served' = served + 1
    /\ UNCHANGED <<brainVars, conversationHistory, brainInstruction>>

\* handleSilence: session.brain.recordSilence(), then generateResponse(session, null)
SilenceRecord(r) ==
    /\ requests[r].kind = "silence"
    /\ requests[r].pc = "record_silence"
    /\ RecordSilence
    /\ requests' = [requests EXCEPT ![r].pc = "generate_instruction"]
    /\ UNCHANGED <<isProcessing, conversationHistory, brainInstruction, served>>

\* generateResponse: const brainInstruction = brain.generateInstruction()
GenerateResponseInstruction(r) ==
    /\ requests[r].kind \in {"greeting", "respond", "silence"}
    /\ requests[r].pc = "generate_instruction"
    /\ CallGenerateInstruction
    /\ requests' = [requests EXCEPT ![r].pc = "record_event"]
    /\ UNCHANGED <<isProcessing, conversationHistory, served>>

\* generateResponse: the if / else if chain on userMessage
GenerateResponseRecord(r) ==
    /\ requests[r].kind \in {"greeting", "respond", "silence"}
    /\ requests[r].pc = "record_event"
    /\ IF RealMessage[requests[r].userMessage]
       THEN /\ conversationHistory' = Append(conversationHistory, "user")
            /\ RecordUserResponse(requests[r].userMessage)
            /\ UNCHANGED brainInstruction
       ELSE IF Len(conversationHistory) = 0
       THEN /\ brainInstruction' = GreetingOverride
            /\ UNCHANGED <<brainVars, conversationHistory>>
       ELSE IF requests[r].userMessage # NoResponse
       THEN /\ RecordSilence
            /\ UNCHANGED <<conversationHistory, brainInstruction>>
       ELSE UNCHANGED <<brainVars, conversationHistory, brainInstruction>>
    /\ requests' = [requests EXCEPT ![r].pc = "send"]
    /\ UNCHANGED <<isProcessing, served>>

\* generateResponse: openaiClient.chat.completions.create(messages) is issued
GenerateResponseSend(r) ==
    /\ requests[r].kind \in {"greeting", "respond", "silence"}
    /\ requests[r].pc = "send"
    /\ requests' = [requests EXCEPT ![r].pc = "completion"]
    /\ brainInstruction' = NoInstruction
    /\ UNCHANGED <<brainVars, isProcessing, conversationHistory, served>>

\* generateResponse when the completion resolves (the assistant message is
\* stored) or rejects (nothing is stored); textToSpeech is awaited next
CompletionReturns(r, resolved) ==
    /\ ~MidSync
    /\ requests[r].pc = "completion"
    /\ conversationHistory' =
            IF resolved THEN Append(conversationHistory, "assistant") ELSE conversationHistory
    /\ requests' = [requests EXCEPT ![r].pc = "speech"]
    /\ UNCHANGED <<brainVars, isProcessing, brainInstruction, served>>

\* textToSpeech resolves or rejects: finally isProcessing = false
SpeechReturns(r) ==
    /\ ~MidSync
    /\ requests[r].pc = "speech"
    /\ isProcessing' = FALSE
    /\ requests' = [requests EXCEPT ![r] = IdleRequest]
    /\ UNCHANGED <<brainVars, conversationHistory, brainInstruction, served>>

NextChained ==
    /\ UNCHANGED <<trackVars, deviceVars>>
    /\ \E r \in Slots :
        \/ /\ served < MaxChainedRequests
           /\ StartGreeting(r)
        \/ /\ served < MaxChainedRequests
           /\ StartRespond(r)
        \/ /\ served < MaxChainedRequests
           /\ StartSilence(r)
        \/ \E transcript \in ChainedTranscripts : TranscriptionReturns(r, transcript)
        \/ SilenceRecord(r)
        \/ GenerateResponseInstruction(r)
        \/ GenerateResponseRecord(r)
        \/ GenerateResponseSend(r)
        \/ \E resolved \in BOOLEAN : CompletionReturns(r, resolved)
        \/ SpeechReturns(r)

SpecChained == Init /\ [][NextChained]_vars

(* The instruction of a session created with a context *)

\* new WakeSessionBrain(personaId, preferences, context) for every combination
\* of the preferences and every context of ContextInputs
InitContext ==
    /\ personaId \in PersonaInputs
    /\ context \in ContextInputs
    /\ \E prefs \in CreationPreferences :
            /\ phase = NewState(prefs).phase
            /\ toolsUsed = NewState(prefs).toolsUsed
            /\ toolsAvailable = NewState(prefs).toolsAvailable
            /\ responsiveness = NewState(prefs).responsiveness
            /\ silenceCount = NewState(prefs).silenceCount
            /\ responseCount = NewState(prefs).responseCount
            /\ lastUserResponse = NewState(prefs).lastUserResponse
            /\ escalationLevel = NewState(prefs).escalationLevel
            /\ preferences = NewState(prefs).preferences
    /\ utterances = 0
    /\ silences = 0
    /\ completeMarked = FALSE
    /\ isProcessing = FALSE
    /\ conversationHistory = <<>>
    /\ requests = [r \in Slots |-> IdleRequest]
    /\ brainInstruction = NoInstruction
    /\ served = 0
    /\ TrackInitial(TrackWithCallToAction)
    /\ DeviceInitial

\* the utterances of these sessions: the two skip commands and one without
ContextTranscripts == {T_SkipNews, T_NoWeather, T_GoodMorning}

\* utterances and generateInstruction calls in any order; the instruction a
\* caller holds is dropped when the session hears an utterance
NextContext ==
    /\ UNCHANGED <<isProcessing, conversationHistory, requests>>
    /\ UNCHANGED <<trackVars, deviceVars>>
    /\ \/ /\ utterances < MaxContextResponses
          /\ \E transcript \in ContextTranscripts : RecordUserResponse(transcript)
          /\ brainInstruction' = NoInstruction
          /\ UNCHANGED served
       \/ /\ served < MaxContextCalls
          /\ CallGenerateInstruction
          /\ served' = served + 1

SpecContext == InitContext /\ [][NextContext]_vars

(* The tool selector, called in any state of the session *)

\* mutant: the query marks the tool it returns
CallGetNextToolMarking ==
    /\ GenerateInstruction
    /\ brainInstruction' = [kind |-> "tool", nextTool |-> NextTool]

\* const nextTool = brain.getNextTool(): the session is only read
CallGetNextTool ==
    /\ UNCHANGED brainVars
    /\ brainInstruction' = [kind |-> "tool", nextTool |-> NextTool]

\* the utterances that move a session through its phases
SelectorTranscripts == {T_GoodMorning, T_ImAwake}

\* utterances, silences, markComplete, and getNextTool / generateInstruction
\* called at any point; what the caller holds of an earlier call is dropped
\* when the session changes
NextSelector ==
    /\ UNCHANGED <<isProcessing, conversationHistory, requests>>
    /\ UNCHANGED <<trackVars, deviceVars>>
    /\ \/ /\ utterances < MaxSelectorResponses
          /\ \E transcript \in SelectorTranscripts : RecordUserResponse(transcript)
          /\ brainInstruction' = NoInstruction
          /\ UNCHANGED served
       \/ /\ silences < MaxSelectorSilence
          /\ RecordSilence
          /\ brainInstruction' = NoInstruction
          /\ UNCHANGED served
       \/ /\ MarkComplete
          /\ brainInstruction' = NoInstruction
          /\ UNCHANGED served
       \/ /\ CallGetNextTool
          /\ UNCHANGED served
       \/ /\ served < MaxSelectorCalls
          /\ GenerateInstruction
          /\ brainInstruction' = NoInstruction
          /\ served' = served + 1

SpecSelector == Init /\ [][NextSelector]_vars

(* The track engine (TrackEngine): calls and their continuations *)

\* no segment: getCurrentSegment returns null
NoSegment == "<null>"

\* getCurrentSegmentWithDepth(depth) from the index given: the index it leaves
\* in currentSegmentIndex and the type of the segment it returns; disabled
\* segments, a calendar segment without events and a news segment without
\* items are stepped over
RECURSIVE CurrentSegmentFrom(_, _, _)
CurrentSegmentFrom(config, index, depth) ==
    IF depth > Len(config.segmentOrder) THEN [index |-> index, type |-> NoSegment]
    ELSE IF index + 1 > Len(config.segmentOrder) THEN [index |-> index, type |-> NoSegment]
    ELSE LET segment == config.segmentOrder[index + 1]
         IN  IF ~segment.enabled
             THEN CurrentSegmentFrom(config, index + 1, depth + 1)
             ELSE IF segment.type = "calendar" /\ config.calendar = 0
             THEN CurrentSegmentFrom(config, index + 1, depth + 1)
             ELSE IF segment.type = "news" /\ config.news = 0
             THEN CurrentSegmentFrom(config, index + 1, depth + 1)
             ELSE [index |-> index, type |-> segment.type]

\* getCurrentSegment()
GetCurrentSegment(config, index) == CurrentSegmentFrom(config, index, 0)

\* advanceSegment(): the index it leaves; it stays on a callToAction segment
AdvanceSegment(config, index) ==
    IF index + 1 <= Len(config.segmentOrder)
       /\ config.segmentOrder[index + 1].type = "callToAction"
    THEN index
    ELSE index + 1

\* arr.slice(-n): the last n entries, or all of them
LastEntries(arr, n) ==
    IF Len(arr) <= n THEN arr ELSE SubSeq(arr, Len(arr) - n + 1, Len(arr))

\* the transcripts handleUserSpeech drops as false positives of the transcriber
FalsePositives ==
    {<<"o", "k", "a", "y">>,
     <<"o", "k">>,
     <<"u", "m">>,
     <<"u", "h">>,
     <<"h", "m", "m">>,
     <<"m", "m">>,
     <<"a", "h">>,
     <<"o", "h">>,
     <<"y", "o", "u">>,
     <<"t", "h", "e">>,
     <<"a">>,
     <<"i">>,
     <<"i", "t">>,
     <<"s", "o">>,
     <<"b", "y", "e">>,
     <<"t", "h", "a", "n", "k", " ", "y", "o", "u">>,
     <<"t", "h", "a", "n", "k", "s", " ", "f", "o", "r", " ", "w", "a", "t", "c", "h", "i", "n", "g">>,
     <<"s", "u", "b", "s", "c", "r", "i", "b", "e">>}

\* !transcript || transcript.trim() === '' || falsePositives.includes(clean)
IsDropped(transcript) ==
    \/ Len(transcript) = 0
    \/ Len(Trim(transcript)) = 0
    \/ ToLowerCase(Trim(transcript)) \in FalsePositives

\* what transcribeAudio resolves to for the engine
TrackTranscripts == {T_Empty, T_Ok, T_MmPadded, T_GoodMorning}

\* IsDropped, tabulated over the inputs
Dropped == [t \in TrackTranscripts |-> IsDropped(t)]

\* a call takes the first slot without a call in flight
FreeCall(r) ==
    /\ trackCalls[r].pc = "idle"
    /\ \A q \in Slots : q < r => trackCalls[q].pc # "idle"

\* a call that has ended, with what it gave its caller
EndedCall(outcome) == [kind |-> "idle", pc |-> "idle", outcome |-> outcome]

\* mutant: the already-processing test is inside the try block, so that the
\* finally of a rejected call clears the flag
GenerateSegmentContentGuardInTry(r) ==
    /\ FreeCall(r)
    /\ trackStarted' = trackStarted + 1
    /\ IF trackIsProcessing
       THEN /\ trackCalls' = [trackCalls EXCEPT ![r] = EndedCall("Already processing")]
            /\ trackIsProcessing' = FALSE
            /\ UNCHANGED currentSegmentIndex
       ELSE LET segment == GetCurrentSegment(trackConfig, currentSegmentIndex)
            IN  /\ currentSegmentIndex' = segment.index
                /\ IF segment.type = NoSegment
                   THEN /\ trackCalls' = [trackCalls EXCEPT ![r] = EndedCall("No more segments")]
                        /\ trackIsProcessing' = FALSE
                   ELSE /\ trackCalls' = [trackCalls EXCEPT ![r] =
                                [kind |-> "generate", pc |-> "completion", outcome |-> "pending"]]
                        /\ trackIsProcessing' = TRUE
    /\ UNCHANGED <<trackConfig, conversationMode, trackConversationHistory,
                   recentConversation, justExitedConversation>>

\* generateSegmentContent() up to its first await: rejected when a call is in
\* flight; else isProcessing = true, getCurrentSegment(), and either 'No more
\* segments' (finally: isProcessing = false) or the completion is awaited
GenerateSegmentContent(r) ==
    /\ FreeCall(r)
    /\ trackStarted' = trackStarted + 1
    /\ IF trackIsProcessing
       THEN /\ trackCalls' = [trackCalls EXCEPT ![r] = EndedCall("Already processing")]
            /\ UNCHANGED <<currentSegmentIndex, trackIsProcessing>>
       ELSE LET segment == GetCurrentSegment(trackConfig, currentSegmentIndex)
            IN  /\ currentSegmentIndex' = segment.index
                /\ IF segment.type = NoSegment
                   THEN /\ trackCalls' = [trackCalls EXCEPT ![r] = EndedCall("No more segments")]
                        /\ trackIsProcessing' = FALSE
                   ELSE /\ trackCalls' = [trackCalls EXCEPT ![r] =
                                [kind |-> "generate", pc |-> "completion", outcome |-> "pending"]]
                        /\ trackIsProcessing' = TRUE
    /\ UNCHANGED <<trackConfig, conversationMode, trackConversationHistory,
                   recentConversation, justExitedConversation>>

\* handleUserSpeech(audioBuffer) up to its first await: null when a call is in
\* flight; else isProcessing = true and transcribeAudio is awaited
HandleUserSpeech(r) ==
    /\ FreeCall(r)
    /\ trackStarted' = trackStarted + 1
    /\ IF trackIsProcessing
       THEN /\ trackCalls' = [trackCalls EXCEPT ![r] = EndedCall("null")]
            /\ UNCHANGED trackIsProcessing
       ELSE /\ trackCalls' = [trackCalls EXCEPT ![r] =
                    [kind |-> "speech", pc |-> "transcribing", outcome |-> "pending"]]
            /\ trackIsProcessing' = TRUE
    /\ UNCHANGED <<trackConfig, currentSegmentIndex, conversationMode,
                   trackConversationHistory, recentConversation, justExitedConversation>>

\* handleUserSpeech when transcribeAudio resolves: null for a transcript that
\* is dropped (finally: isProcessing = false); else conversation mode is
\* entered, the user message stored, and generateConversationResponse runs
\* getCurrentSegment() and awaits the completion
TrackTranscriptionReturns(r, transcript) ==
    /\ trackCalls[r].kind = "speech"
    /\ trackCalls[r].pc = "transcribing"
    /\ IF Dropped[transcript]
       THEN /\ trackCalls' = [trackCalls EXCEPT ![r] = EndedCall("null")]
            /\ trackIsProcessing' = FALSE
            /\ UNCHANGED <<currentSegmentIndex, conversationMode, trackConversationHistory>>
       ELSE /\ conversationMode' = TRUE
            /\ trackConversationHistory' = Append(trackConversationHistory, "user")
            /\ currentSegmentIndex' = GetCurrentSegment(trackConfig, currentSegmentIndex).index
            /\ trackCalls' = [trackCalls EXCEPT ![r].pc = "conversation"]
            /\ UNCHANGED trackIsProcessing
    /\ UNCHANGED <<trackConfig, recentConversation, justExitedConversation, trackStarted>>

\* handleUserSpeech when the completion of generateConversationResponse
\* resolves (the assistant message is stored, textToSpeech is awaited) or
\* rejects (finally: isProcessing = false)
TrackConversationReturns(r, resolved) ==
    /\ trackCalls[r].kind = "speech"
    /\ trackCalls[r].pc = "conversation"
    /\ IF resolved
       THEN /\ trackConversationHistory' = Append(trackConversationHistory, "assistant")
            /\ trackCalls' = [trackCalls EXCEPT ![r].pc = "speech"]
            /\ UNCHANGED trackIsProcessing
       ELSE /\ trackCalls' = [trackCalls EXCEPT ![r] = EndedCall("error")]
            /\ trackIsProcessing' = FALSE
            /\ UNCHANGED trackConversationHistory
    /\ UNCHANGED <<trackConfig, currentSegmentIndex, conversationMode, recentConversation,
                   justExitedConversation, trackStarted>>

\* handleSilence() up to its first await: conversation mode is left (the last
\* four messages kept for the transition), advanceSegment(), then
\* generateSegmentContent() as above; when that call is rejected,
\* handleSilence rejects with its error
HandleSilence(r) ==
    /\ FreeCall(r)
    /\ trackStarted' = trackStarted + 1
    /\ recentConversation' =
            IF conversationMode THEN LastEntries(trackConversationHistory, 4)
            ELSE recentConversation
    /\ justExitedConversation' = (conversationMode \/ justExitedConversation)
    /\ conversationMode' = FALSE
    /\ IF trackIsProcessing
       THEN /\ currentSegmentIndex' = AdvanceSegment(trackConfig, currentSegmentIndex)
            /\ trackCalls' = [trackCalls EXCEPT ![r] = EndedCall("Already processing")]
            /\ UNCHANGED trackIsProcessing
       ELSE LET segment == GetCurrentSegment(trackConfig,
                                AdvanceSegment(trackConfig, currentSegmentIndex))
            IN  /\ currentSegmentIndex' = segment.index
                /\ IF segment.type = NoSegment
                   THEN /\ trackCalls' = [trackCalls EXCEPT ![r] = EndedCall("No more segments")]
                        /\ trackIsProcessing' = FALSE
                   ELSE /\ trackCalls' = [trackCalls EXCEPT ![r] =
                                [kind |-> "silence", pc |-> "completion", outcome |-> "pending"]]
                        /\ trackIsProcessing' = TRUE
    /\ UNCHANGED <<trackConfig, trackConversationHistory>>

\* generateSegmentContent when its completion resolves (the text is stored,
\* textToSpeech is awaited) or rejects (finally: isProcessing = false)
TrackCompletionReturns(r, resolved) ==
    /\ trackCalls[r].kind \in {"generate", "silence"}
    /\ trackCalls[r].pc = "completion"
    /\ IF resolved
       THEN /\ trackConversationHistory' = Append(trackConversationHistory, "assistant")
            /\ trackCalls' = [trackCalls EXCEPT ![r].pc = "speech"]
            /\ UNCHANGED trackIsProcessing
       ELSE /\ trackCalls' = [trackCalls EXCEPT ![r] = EndedCall("error")]
            /\ trackIsProcessing' = FALSE
            /\ UNCHANGED trackConversationHistory
    /\ UNCHANGED <<trackConfig, currentSegmentIndex, conversationMode, recentConversation,
                   justExitedConversation, trackStarted>>

\* textToSpeech resolves or rejects: finally isProcessing = false; a
\* handleSilence whose generateSegmentContent resolved clears the transition
TrackSpeechReturns(r, resolved) ==
    /\ trackCalls[r].pc = "speech"
    /\ trackIsProcessing' = FALSE
    /\ trackCalls' = [trackCalls EXCEPT ![r] =
            EndedCall(IF resolved THEN "content" ELSE "error")]
    /\ IF trackCalls[r].kind = "silence" /\ resolved
       THEN /\ justExitedConversation' = FALSE
            /\ recentConversation' = <<>>
       ELSE UNCHANGED <<justExitedConversation, recentConversation>>
    /\ UNCHANGED <<trackConfig, currentSegmentIndex, conversationMode,
                   trackConversationHistory, trackStarted>>

\* new TrackEngine(config) for each configuration, beside a session nobody uses
InitTrack ==
    /\ InitSession
    /\ personaId = "morning-coach"
    /\ preferences.includeNews
    /\ \E config \in TrackConfigInputs : TrackInitial(config)
    /\ DeviceInitial

NextTrack ==
    /\ UNCHANGED <<brainVars, callerVars, deviceVars>>
    /\ \E r \in Slots :
        \/ /\ trackStarted < MaxTrackCalls
           /\ GenerateSegmentContent(r)
        \/ /\ trackStarted < MaxTrackCalls
           /\ HandleUserSpeech(r)
        \/ /\ trackStarted < MaxTrackCalls
           /\ HandleSilence(r)
        \/ \E transcript \in TrackTranscripts : TrackTranscriptionReturns(r, transcript)
        \/ \E resolved \in BOOLEAN : TrackConversationReturns(r, resolved)
        \/ \E resolved \in BOOLEAN : TrackCompletionReturns(r, resolved)
        \/ \E resolved \in BOOLEAN : TrackSpeechReturns(r, resolved)

SpecTrack == InitTrack /\ [][NextTrack]_vars

----------------------------------------------------------------------------
(* The device check routes *)

\* req.body.device_token: missing, empty, or the token of one of three devices
DeviceTokenInputs == {Undefined, "", "device-a", "device-b", "device-c"}

\* req.body.increment_session as a JSON value: missing, false or true
IncrementInputs == {Undefined, "false", "true"}

\* if (increment_session): of the JSON values above only true is truthy
IncrementRequested(increment_session) == increment_session = "true"

\* hashDeviceToken: the SHA-256 digest of the token in hexadecimal, tabulated
\* for the tokens above (distinct tokens have distinct digests)
HashDeviceToken(deviceToken) ==
    CASE deviceToken = "device-a" -> "sha256-of-device-a"
      [] deviceToken = "device-b" -> "sha256-of-device-b"
      [] deviceToken = "device-c" -> "sha256-of-device-c"

\* deviceStore.get(deviceHash)?.freeSessionsUsed || 0
StoredFreeSessionsUsed(deviceHash) ==
    IF deviceHash \in DOMAIN deviceStore THEN deviceStore[deviceHash] ELSE 0

\* deviceStore.set(deviceHash, deviceData)
StoreSet(deviceHash, freeSessionsUsed) ==
    [h \in DOMAIN deviceStore \cup {deviceHash} |->
        IF h = deviceHash THEN freeSessionsUsed ELSE deviceStore[h]]

\* res.status(400).json({ error: 'device_token required' })
TokenRequired == [status |-> 400, error |-> "device_token required"]

\* POST /device/status
DeviceStatus(device_token) ==
    /\ deviceResponse' =
         IF ~Truthy(device_token)
         THEN TokenRequired
         ELSE [status |-> 200,
               free_sessions_used |->
                   StoredFreeSessionsUsed(HashDeviceToken(device_token))]
    /\ UNCHANGED deviceStore

\* POST /device/update with a counter that is not capped
DeviceUpdateUncapped(device_token, increment_session) ==
    IF ~Truthy(device_token)
    THEN /\ deviceResponse' = TokenRequired
         /\ UNCHANGED deviceStore
    ELSE LET deviceHash == HashDeviceToken(device_token)
             stored == StoredFreeSessionsUsed(deviceHash)
             freeSessionsUsed ==
                 IF IncrementRequested(increment_session)
                 THEN stored + 1
                 ELSE stored
         IN  /\ deviceStore' = StoreSet(deviceHash, freeSessionsUsed)
             /\ deviceResponse' = [status |-> 200, success |-> TRUE,
                                   free_sessions_used |-> freeSessionsUsed]

\* POST /device/update
DeviceUpdate(device_token, increment_session) ==
    IF ~Truthy(device_token)
    THEN /\ deviceResponse' = TokenRequired
         /\ UNCHANGED deviceStore
    ELSE LET deviceHash == HashDeviceToken(device_token)
             stored == StoredFreeSessionsUsed(deviceHash)
             freeSessionsUsed ==
                 IF IncrementRequested(increment_session)
                 THEN Min(2, stored + 1)
                 ELSE stored
         IN  /\ deviceStore' = StoreSet(deviceHash, freeSessionsUsed)
             /\ deviceResponse' = [status |-> 200, success |-> TRUE,
                                   free_sessions_used |-> freeSessionsUsed]

\* the server after start: an empty store, beside a session nobody uses
InitDevice ==
    /\ InitSession
    /\ personaId = "morning-coach"
    /\ preferences.includeNews
    /\ TrackInitial(TrackWithCallToAction)
    /\ DeviceInitial

NextDevice ==
    /\ UNCHANGED <<brainVars, callerVars, trackVars>>
    /\ \/ \E device_token \in DeviceTokenInputs : DeviceStatus(device_token)
       \/ \E device_token \in DeviceTokenInputs :
            \E increment_session \in IncrementInputs :
                DeviceUpdate(device_token, increment_session)

SpecDevice == InitDevice /\ [][NextDevice]_vars

----------------------------------------------------------------------------
(* The inputs as the specification describes them, labelled by hand *)

\* the transcripts that are one lazy-acknowledgment token, optionally followed
\* by a full stop, whatever their case and surrounding whitespace
LazyTranscripts == {T_Ok, T_YeahDot, T_MmPadded, T_Sure}

\* the transcripts that contain "i'm awake", "i am awake" or "i'm up"
WakeDeclarations == {T_ImAwake, T_IAmAwakeLong, T_ImUpset}

\* the number of whitespace-separated words of each transcript
WordsOf(t) ==
    CASE t \in {T_Ok, T_YeahDot, T_MmPadded, T_Sure} -> 1
      [] t \in {T_GoodMorning, T_OkayThen, T_ImAwake, T_ImUpset, T_SkipNews} -> 2
      [] t = T_NoWeather -> 4
      [] t = T_SixWords -> 6
      [] t \in {T_SevenWords, T_IAmAwakeLong} -> 7

\* first match wins over (lazy?, word count)
ExpectedResponsiveness(t) ==
    IF t \in LazyTranscripts THEN "minimal"
    ELSE IF WordsOf(t) >= 1 /\ WordsOf(t) <= 6 THEN "conversing"
    ELSE "alert"

\* the utterances that hold a skip-news command / a skip-weather command
SkipNewsTranscripts == {T_SkipNews}

SkipWeatherTranscripts == {T_NoWeather}

\* the utterances that are neither a lazy acknowledgment nor a wake declaration
GenuineTranscripts ==
    {T_GoodMorning, T_OkayThen, T_SixWords, T_SevenWords, T_SkipNews, T_NoWeather}

\* uninterrupted silence: the phase after n recordSilence calls
SilentPhaseAfter(n) ==
    IF n <= 3 THEN "brain_wakeup"
    ELSE IF n <= 5 THEN "soft_chat"
    ELSE IF n <= 7 THEN "encouragement"
    ELSE "movement"

\* uninterrupted silence: the escalation level after n recordSilence calls
SilentLevelAfter(n) ==
    IF n = 0 THEN 0
    ELSE IF n <= 9 THEN <<0, 0, 0, 1, 2, 2, 3, 3, 4>>[n]
    ELSE 4

\* the three repeatable pools, as sets
MovementPool ==
    {"walk_request", "stand_up_request", "sit_up_request", "coffee_walk",
     "first_step_insight", "direct_question", "accountability"}

CalmPool == {"breathing", "body_awareness", "gentle_story", "gratitude", "direct_question"}

GeneralPool ==
    {"direct_question", "coffee_mention", "first_step_insight", "interesting_fact",
     "accountability", "challenge", "breathing", "humor"}

\* the pool of the session: by phase first, by persona second
ChosenPool ==
    IF phase = "movement" THEN MovementPool
    ELSE IF personaId = "zen-guide" THEN CalmPool
    ELSE GeneralPool

\* the tools of the curated list of the session's persona and phase
CuratedTools ==
    {Priority(personaId, phase)[i] : i \in 1..Len(Priority(personaId, phase))}

\* the calls on the engine that have passed the already-processing test and
\* have not ended
TrackInFlight == {r \in Slots : trackCalls[r].pc # "idle"}

\* the four preference toggles
PreferenceNames == {"includeNews", "includeWeather", "includeCalendar", "includeStories"}

\* the positions of the curated list of the session's persona and phase whose
\* tool is not in toolsUsed and is in toolsAvailable
Eligible ==
    {i \in 1..Len(Priority(personaId, phase)) :
        /\ ~ArrayIncludes(toolsUsed, Priority(personaId, phase)[i])
        /\ ArrayIncludes(toolsAvailable, Priority(personaId, phase)[i])}

\* the least position of a non-empty set of positions
FirstOf(positions) == CHOOSE i \in positions : \A j \in positions : i <= j

\* the repeatable pool of the rotation: the pool of the phase and persona
\* restricted to the curated list when that leaves a tool, else the whole pool
RotationPool ==
    LET pool == RepeatableTools(personaId, phase)
        filtered == SelectSeq(pool, LAMBDA t : ArrayIncludes(Priority(personaId, phase), t))
    IN  IF Len(filtered) > 0 THEN filtered ELSE pool

\* a caller is about to call generateInstruction in this state
InstructionDue ==
    \E r \in Slots : requests[r].pc = "generate_instruction"

\* this step is the call of generateInstruction
InstructionStep ==
    \E r \in Slots : /\ requests[r].pc = "generate_instruction"
                     /\ requests'[r].pc # "generate_instruction"

\* the calls in flight
InFlight == {r \in Slots : requests[r].kind # "idle"}

NoDuplicates(arr) == \A i, j \in 1..Len(arr) : arr[i] = arr[j] => i = j

----------------------------------------------------------------------------
(* Claims *)

\* C1: the phase never moves backwards in the order brain_wakeup < soft_chat <
\* encouragement < movement < verification < complete; it moves up by more than
\* one position only into verification on a wake declaration (markComplete, the
\* explicit command, apart).
C1_PhaseNeverRegresses ==
    [][/\ PhaseRank(phase') >= PhaseRank(phase)
       /\ PhaseRank(phase') > PhaseRank(phase) + 1 =>
             \/ phase' = "verification" /\ lastUserResponse' \in WakeDeclarations
             \/ completeMarked']_vars

\* C2: in every state reachable by recordSilence and recordUserResponse calls,
\* escalationLevel is an integer in 0..4 and silenceCount is a natural number.
C2_Clamping == escalationLevel \in 0..4 /\ silenceCount \in Nat

C2_Witness ==
    /\ escalationLevel = 4
    /\ utterances > 0
    /\ silenceCount < silences
    /\ ~completeMarked

\* C3: a recordUserResponse call whose transcript contains a wake declaration
\* ends with phase = verification, whatever the phase it was called in.
C3_WakeDeclarationForcesVerification ==
    [][\A t \in WakeDeclarations :
          RecordUserResponse(t) => phase' = "verification"]_vars

\* the first utterance of a session is a wake declaration: the forward table
\* moved brain_wakeup to soft_chat in the same call
C3_Witness ==
    /\ phase = "verification"
    /\ utterances = 1
    /\ lastUserResponse = T_IAmAwakeLong
    /\ ~completeMarked

\* C4: a recordUserResponse call whose transcript matches a lazy-acknowledgment
\* pattern sets responsiveness to minimal and leaves the phase as it was.
C4_LazyNeverAdvances ==
    [][\A t \in LazyTranscripts :
          RecordUserResponse(t) => responsiveness' = "minimal" /\ phase' = phase]_vars

\* two lazy acknowledgments in soft_chat, where a genuine second utterance
\* would have moved the phase to encouragement
C4_Witness ==
    /\ phase = "soft_chat"
    /\ responsiveness = "minimal"
    /\ lastUserResponse = T_MmPadded
    /\ utterances = 3
    /\ silences = 0

\* C5: responseCount never decreases, and it is the number of recordUserResponse
\* calls made so far: each such call adds exactly 1, no other operation changes it.
C5_ResponseCountMonotonic ==
    [][responseCount' >= responseCount /\ responseCount' = utterances']_vars

C5_Witness ==
    /\ responseCount = 3
    /\ responsiveness = "silent"
    /\ Len(toolsUsed) > 0
    /\ completeMarked

\* C6: with no user input, the session is in brain_wakeup with escalationLevel 0
\* after each of the first three recordSilence calls, and in soft_chat with
\* escalationLevel 1 and silenceCount 4 after the fourth, whatever the persona.
C6_FourSilences ==
    (utterances = 0 /\ ~completeMarked) =>
        /\ silences <= 3 =>
              phase = "brain_wakeup" /\ escalationLevel = 0 /\ silenceCount = silences
        /\ silences = 4 =>
              phase = "soft_chat" /\ escalationLevel = 1 /\ silenceCount = 4

C6_Witness ==
    /\ utterances = 0
    /\ ~completeMarked
    /\ silences = 4
    /\ personaId = "morning-coach"

\* C7: in brain_wakeup, a genuine utterance without a wake declaration moves the
\* phase to soft_chat, resets silenceCount to 0, adds 1 to responseCount and
\* sets responsiveness to conversing or alert, whatever the silenceCount.
C7_GenuineInBrainWakeup ==
    [][\A t \in (Transcripts \ LazyTranscripts) \ WakeDeclarations :
          (phase = "brain_wakeup" /\ RecordUserResponse(t)) =>
              /\ phase' = "soft_chat"
              /\ silenceCount' = 0
              /\ responseCount' = responseCount + 1
              /\ responsiveness' \in {"conversing", "alert"}]_vars

\* three silences, then the first utterance
C7_Witness ==
    /\ phase = "soft_chat"
    /\ utterances = 1
    /\ silences = 3
    /\ silenceCount = 0
    /\ responseCount = 1
    /\ lastUserResponse = T_GoodMorning

\* C8: a lazy acknowledgment adds 1 to responseCount, sets silenceCount to
\* max(0, silenceCount - 2) and escalationLevel to max(0, escalationLevel - 1).
C8_LazyAcknowledgment ==
    [][\A t \in LazyTranscripts :
          RecordUserResponse(t) =>
              /\ responseCount' = responseCount + 1
              /\ silenceCount' = (IF silenceCount >= 2 THEN silenceCount - 2 ELSE 0)
              /\ escalationLevel' =
                     (IF escalationLevel >= 1 THEN escalationLevel - 1 ELSE 0)]_vars

\* five silences, then one lazy acknowledgment: 3 silences and level 1 are left
C8_Witness ==
    /\ utterances = 1
    /\ lastUserResponse = T_YeahDot
    /\ silences = 5
    /\ silenceCount = 3
    /\ escalationLevel = 1

\* C9: recordUserResponse classifies a lazy transcript as minimal, a non-lazy
\* transcript of 1 to 6 words as conversing and one of more than 6 words as
\* alert; it sets no other responsiveness value.
C9_Classification ==
    [][\A t \in Transcripts :
          RecordUserResponse(t) =>
              /\ responsiveness' = ExpectedResponsiveness(t)
              /\ responsiveness' \in {"minimal", "conversing", "alert"}]_vars

C9_Witness ==
    /\ responsiveness = "conversing"
    /\ lastUserResponse = T_SixWords
    /\ utterances = 2

\* C10: toolsUsed never holds a tool twice, marking a tool a second time changes
\* nothing, and toolsUsed changes only by appending a tool it does not hold.
C10_MarkToolUsedIdempotent ==
    /\ [](/\ NoDuplicates(toolsUsed)
          /\ \A t \in EngagementTool :
                AddTool(AddTool(toolsUsed, t), t) = AddTool(toolsUsed, t))
    /\ [][\/ toolsUsed' = toolsUsed
          \/ \E t \in EngagementTool :
                /\ ~ArrayIncludes(toolsUsed, t)
                /\ toolsUsed' = Append(toolsUsed, t)]_vars

\* weather marked by the caller, then greeting by generateInstruction
C10_Witness ==
    /\ toolsUsed = <<"weather", "greeting">>
    /\ phase = "brain_wakeup"

\* C11: whenever the curated list of the session's persona for the current
\* phase holds a tool that is not in toolsUsed and is in toolsAvailable,
\* getNextTool returns the first such tool in list order.
C11_CuratedFirst ==
    Eligible # {} => NextTool = Priority(personaId, phase)[FirstOf(Eligible)]

\* generateInstruction is about to select, and the first eligible tool comes
\* after a tool that is unused but not available
C11_Witness ==
    /\ InstructionDue
    /\ Eligible # {}
    /\ \E j \in 1..(FirstOf(Eligible) - 1) :
            /\ ~ArrayIncludes(toolsUsed, Priority(personaId, phase)[j])
            /\ ~ArrayIncludes(toolsAvailable, Priority(personaId, phase)[j])

C13_CuratedAtMostOnce ==
    [][/\ \A i \in 1..Len(toolsUsed) :
            i <= Len(toolsUsed') /\ toolsUsed'[i] = toolsUsed[i]
       /\ (InstructionStep /\ Eligible # {}) =>
            /\ ~ArrayIncludes(toolsUsed, NextTool)
            /\ ArrayIncludes(toolsUsed', NextTool)
       /\ ArrayIncludes(toolsUsed, NextTool) => Eligible = {}
      ]_vars

\* generateInstruction is about to recommend, by rotation, a tool it has
\* recommended before
C13_Witness ==
    /\ InstructionDue
    /\ ArrayIncludes(toolsUsed, NextTool)
    /\ Eligible = {}

\* C14: toolsAvailable changes only by the removal a skip voice command
\* triggers: after an utterance that holds "skip news" / "no news" the news
\* tool is not in toolsAvailable and getNextTool does not return it, likewise
\* weather after "skip weather" / "no weather", and no other step changes
\* toolsAvailable.
C14_SkipRemovesTool ==
    [][/\ (utterances' = utterances + 1 /\ lastUserResponse' \in SkipNewsTranscripts) =>
            /\ ~ArrayIncludes(toolsAvailable', "news")
            /\ NextTool' # "news"
       /\ (utterances' = utterances + 1 /\ lastUserResponse' \in SkipWeatherTranscripts) =>
            /\ ~ArrayIncludes(toolsAvailable', "weather")
            /\ NextTool' # "weather"
       /\ toolsAvailable' # toolsAvailable =>
            /\ utterances' = utterances + 1
            /\ lastUserResponse' \in SkipNewsTranscripts \cup SkipWeatherTranscripts
      ]_vars

\* C15: at session creation toolsAvailable holds each of weather, calendar,
\* news and gentle_story if and only if its preference toggle is true, and
\* holds no tool twice.
C15_AvailableToolsAtCreation ==
    (utterances = 0 /\ silences = 0 /\ Len(toolsUsed) = 0 /\ ~completeMarked) =>
        /\ ArrayIncludes(toolsAvailable, "weather") <=> preferences.includeWeather
        /\ ArrayIncludes(toolsAvailable, "calendar") <=> preferences.includeCalendar
        /\ ArrayIncludes(toolsAvailable, "news") <=> preferences.includeNews
        /\ ArrayIncludes(toolsAvailable, "gentle_story") <=> preferences.includeStories
        /\ NoDuplicates(toolsAvailable)

\* C16: for a persona without a tool-priority table getNextTool returns a tool
\* and it is the tool it returns for morning-coach in the same state, the
\* curated list and the repeatable pool being those of morning-coach.
C16_UnknownPersonaAsMorningCoach ==
    personaId \notin {"zen-guide", "morning-coach", "strict-sergeant"} =>
        /\ NextTool \in EngagementTool
        /\ NextTool = GetNextTool("morning-coach", phase, toolsUsed, toolsAvailable,
                                  silenceCount)
        /\ Priority(personaId, phase) = ToolPriorityTable("morning-coach", phase)
        /\ RepeatableTools(personaId, phase) = RepeatableTools("morning-coach", phase)

\* generateInstruction is about to select for the persona night-owl, past the
\* first phase, from a curated list that has a tool left
C16_Witness ==
    /\ personaId = "night-owl"
    /\ InstructionDue
    /\ Len(toolsUsed) >= 2
    /\ Eligible # {}
    /\ phase # "brain_wakeup"

\* C17: the instruction of the opening greeting (the first call on a new
\* session, before any event) does not carry the "user is silent" framing, and
\* the instruction of every generateInstruction call made after a recordSilence
\* carries it, whatever the number of tools used.
C17_SilentFraming ==
    \A r \in Slots :
        /\ (requests[r].kind = "greeting" /\ requests[r].pc = "record_event"
                /\ served = 1 /\ utterances = 0 /\ silences = 0) =>
            ~brainInstruction.silentHeader
        /\ (requests[r].kind = "prompt" /\ requests[r].pc = "send") =>
            brainInstruction.silentHeader

\* C18: for every event the orchestrator handles (user utterance or silence),
\* the state machine is updated for the event before the instruction of the
\* turn is rendered: the instruction sent to the generative backend carries the
\* phase, the silence count and the escalation level the session has once the
\* event is recorded.
C18_UpdateBeforeInstruction ==
    [][\A r \in Slots :
            (/\ requests[r].kind \in {"respond", "silence", "prompt"}
             /\ requests[r].pc = "send"
             /\ requests'[r].pc # "send"
             /\ brainInstruction.kind = "brain") =>
                /\ brainInstruction.phase = phase
                /\ brainInstruction.silenceCount = silenceCount
                /\ brainInstruction.escalation = escalationLevel
      ]_vars

\* C19: at most one event of a session is in flight at a time, and
\* isProcessing is true exactly while an event of the session is in flight.
C19_OneEventInFlight ==
    /\ Cardinality(InFlight) <= 1
    /\ isProcessing <=> InFlight # {}

\* C20: for every tool with a variation list of length L the variation window
\* at the current silence count is the entries at start = silenceCount mod L
\* and, when start + 1 < L, start + 1: one or two entries, never wrapping.
C20_VariationWindow ==
    \A tool \in {"direct_question", "accountability", "challenge", "breathing"} :
        LET list == Variations(tool)
            L == Len(list)
            start == silenceCount % L
            window == GetVariationSuggestions(tool, silenceCount)
        IN  /\ L = 4
            /\ Len(window) \in {1, 2}
            /\ window = IF start + 1 < L
                        THEN <<list[start + 1], list[start + 2]>>
                        ELSE <<list[start + 1]>>

\* an instruction was rendered with the window of one entry, the last of the list
C20_Witness ==
    /\ brainInstruction # NoInstruction
    /\ brainInstruction.kind = "brain"
    /\ brainInstruction.nextTool \in VariationTools
    /\ brainInstruction.silenceCount % 4 = 3
    /\ brainInstruction.variations = <<Variations(brainInstruction.nextTool)[4]>>

\* C21: an utterance that holds "skip news" / "no news" sets includeNews to
\* false and one that holds "skip weather" / "no weather" sets includeWeather to
\* false, each leaving the other preferences as they were, and no step changes
\* a preference from false to true.
C21_PreferencesOnlyTurnOff ==
    [][/\ \A t \in SkipNewsTranscripts :
            RecordUserResponse(t) =>
                preferences' = [preferences EXCEPT !.includeNews = FALSE]
       /\ \A t \in SkipWeatherTranscripts :
            RecordUserResponse(t) =>
                preferences' = [preferences EXCEPT !.includeWeather = FALSE]
       /\ \A name \in PreferenceNames : preferences'[name] => preferences[name]
      ]_vars

\* "Skip news" was said in a session created with every preference on
C21_Witness ==
    /\ lastUserResponse = T_SkipNews
    /\ ~preferences.includeNews
    /\ preferences.includeWeather
    /\ preferences.includeCalendar
    /\ preferences.includeStories

\* C23: responsiveness is never mumbling: in every reachable state it is one
\* of silent, minimal, conversing, alert.
C23_MumblingUnreachable ==
    /\ responsiveness # "mumbling"
    /\ responsiveness \in {"silent", "minimal", "conversing", "alert"}

\* a reply of two words that begins with a lazy token was classified
C23_Witness ==
    /\ lastUserResponse = T_OkayThen
    /\ responsiveness = "conversing"

\* C24: on a genuine utterance without a wake declaration the forward
\* transition tests responseCount after its increment: soft_chat becomes
\* encouragement iff that count is at least 2, encouragement becomes movement
\* iff it is at least 4, and movement, verification and complete are kept.
C24_ForwardTransition ==
    [][\A t \in GenuineTranscripts :
          RecordUserResponse(t) =>
              /\ phase = "soft_chat" =>
                    phase' = (IF responseCount + 1 >= 2 THEN "encouragement"
                              ELSE "soft_chat")
              /\ phase = "encouragement" =>
                    phase' = (IF responseCount + 1 >= 4 THEN "movement"
                              ELSE "encouragement")
              /\ phase \in {"movement", "verification", "complete"} =>
                    phase' = phase
      ]_vars

\* four utterances and no silence: the fourth, genuine, entered movement
C24_Witness ==
    /\ utterances = 4
    /\ silences = 0
    /\ responseCount = 4
    /\ lastUserResponse = T_SevenWords
    /\ phase = "movement"

\* C22: a newly created session has phase brain_wakeup, silenceCount,
\* responseCount and escalationLevel 0, toolsUsed empty, lastUserResponse none
\* and responsiveness silent, for every persona and every combination of
\* preferences.
C22_NewSession ==
    served = 0 =>
        /\ phase = "brain_wakeup"
        /\ silenceCount = 0
        /\ responseCount = 0
        /\ escalationLevel = 0
        /\ Len(toolsUsed) = 0
        /\ lastUserResponse = NoResponse
        /\ responsiveness = "silent"

\* a new session of the persona without a table, with two toggles on and two off
C22_Witness ==
    /\ served = 0
    /\ personaId = "night-owl"
    /\ preferences.includeNews
    /\ ~preferences.includeWeather
    /\ preferences.includeCalendar
    /\ ~preferences.includeStories

\* C25: the escalation caps rise with the phase: the level is 0 in
\* brain_wakeup, at most 2 in soft_chat and at most 3 in encouragement; level 4
\* occurs only in movement or a later phase.
C25_EscalationCaps ==
    /\ phase = "brain_wakeup" => escalationLevel = 0
    /\ phase = "soft_chat" => escalationLevel <= 2
    /\ phase = "encouragement" => escalationLevel <= 3
    /\ escalationLevel = 4 => phase \in {"movement", "verification", "complete"}

\* encouragement at its cap, reached by silence
C25_Witness ==
    /\ phase = "encouragement"
    /\ escalationLevel = 3
    /\ responsiveness = "silent"

\* C26: recordSilence never lowers escalationLevel, and recordUserResponse
\* never raises it: it lowers it by exactly 1 when it is above 0.
C26_EscalationDirections ==
    [][/\ RecordSilence => escalationLevel' >= escalationLevel
       /\ \A t \in Transcripts :
            RecordUserResponse(t) =>
                escalationLevel' = (IF escalationLevel > 0 THEN escalationLevel - 1
                                    ELSE 0)
      ]_vars

\* a lazy acknowledgment in movement lowered the level from 4 to 3
C26_Witness ==
    /\ phase = "movement"
    /\ responsiveness = "minimal"
    /\ escalationLevel = 3
    /\ utterances = 1
    /\ silences = 9

C28_OneStepPerEvent ==
    [][/\ RecordSilence => PhaseRank(phase') - PhaseRank(phase) \in {-1, 0, 1}
       /\ \A t \in Transcripts \ WakeDeclarations :
            RecordUserResponse(t) =>
                PhaseRank(phase') - PhaseRank(phase) \in {-1, 0, 1}
      ]_vars

\* a lazy acknowledgment, then a genuine utterance in brain_wakeup: soft_chat
\* is entered and kept, although responseCount is 2
C28_Witness ==
    /\ utterances = 2
    /\ silences = 0
    /\ responseCount = 2
    /\ lastUserResponse = T_GoodMorning
    /\ phase = "soft_chat"

\* C29: in verification and in complete, recordSilence leaves phase and
\* escalationLevel as they are, adds 1 to silenceCount and sets responsiveness
\* to silent.
C29_SilenceAfterMovement ==
    [][(phase \in {"verification", "complete"} /\ RecordSilence) =>
            /\ phase' = phase
            /\ escalationLevel' = escalationLevel
            /\ silenceCount' = silenceCount + 1
            /\ responsiveness' = "silent"
      ]_vars

\* eight silences in a row in verification
C29_Witness ==
    /\ phase = "verification"
    /\ responsiveness = "silent"
    /\ silenceCount = 8
    /\ escalationLevel = 0

\* C30: lazy acknowledgments do not stop silence-based progression: in a run
\* of recordSilence calls whose only utterances are lazy acknowledgments, the
\* phase leaves brain_wakeup (and goes on to movement); here, by the time the
\* run has recorded all its silences, the phase is no longer brain_wakeup.
C30_LazyProgression ==
    silences = MaxLazySilence => phase # "brain_wakeup"

\* C31: getNextTool is a pure query: a call leaves the whole session state as
\* it is, and a second call with no mutation in between returns the same tool;
\* generateInstruction changes only toolsUsed, to which it adds the tool
\* getNextTool returns at the start of the call unless it is already there.
C31_SelectorFrame ==
    [][/\ brainInstruction'.kind = "tool" =>
            /\ UNCHANGED brainVars
            /\ brainInstruction'.nextTool = NextTool
            /\ brainInstruction.kind = "tool" =>
                    brainInstruction'.nextTool = brainInstruction.nextTool
       /\ served' = served + 1 =>
            /\ toolsUsed' = (IF NextTool = NoTool \/ ArrayIncludes(toolsUsed, NextTool)
                             THEN toolsUsed
                             ELSE Append(toolsUsed, NextTool))
            /\ UNCHANGED <<personaId, context, phase, toolsAvailable, responsiveness, silenceCount,
                           responseCount, lastUserResponse, escalationLevel, preferences>>
      ]_vars

\* getNextTool has returned a tool of the rotation, which generateInstruction
\* calls had marked before
C31_Witness ==
    /\ brainInstruction.kind = "tool"
    /\ ArrayIncludes(toolsUsed, brainInstruction.nextTool)
    /\ served >= 2

\* C32: when the curated list is exhausted the tool comes from the repeatable
\* pool chosen by phase first and persona second (the movement pool in
\* movement for every persona, else the calm pool for zen-guide and the general
\* pool for every other persona); it is a tool of the curated list whenever the
\* pool and the curated list share a tool, and a tool outside the curated list
\* only when they share none.
C32_PoolByPhaseThenPersona ==
    Eligible = {} =>
        /\ NextTool \in ChosenPool
        /\ ChosenPool \cap CuratedTools # {} => NextTool \in CuratedTools
        /\ NextTool \notin CuratedTools => ChosenPool \cap CuratedTools = {}

\* zen-guide in movement with the three movement tools used: the movement pool,
\* restricted to the curated list
C32_Witness ==
    /\ personaId = "zen-guide"
    /\ phase = "movement"
    /\ Eligible = {}
    /\ NextTool \in MovementPool \cap CuratedTools

\* C33: the fallback rotation keeps changing: for every persona and every
\* phase, once the curated list is exhausted, the selections before and after
\* one recordSilence that leaves the phase as it is are different tools.
C33_RotationKeepsChanging ==
    [][(Eligible = {} /\ silences' = silences + 1 /\ phase' = phase) =>
            NextTool' # NextTool
      ]_vars

\* C34: the tool getNextTool returns, through the curated step or through
\* either fallback pool, is a member of toolsAvailable, and a preference-gated
\* tool whose toggle was off at creation is never returned (no utterance of
\* these runs holds a voice command, so the toggles are those of creation).
C34_RecommendedToolAvailable ==
    /\ NextTool # NoTool => ArrayIncludes(toolsAvailable, NextTool)
    /\ ~preferences.includeWeather => NextTool # "weather"
    /\ ~preferences.includeCalendar => NextTool # "calendar"
    /\ ~preferences.includeNews => NextTool # "news"
    /\ ~preferences.includeStories => NextTool # "gentle_story"

\* C35: automatic progression stops at movement: phase complete is entered only
\* by markComplete and phase verification only by an utterance with a wake
\* declaration; a recordSilence call or an utterance without a wake declaration
\* leaves the phase as it is or moves it to soft_chat, encouragement or
\* movement; isComplete is true exactly when the phase is complete.
C35_ProgressionStopsAtMovement ==
    [][/\ (phase' = "complete" /\ phase # "complete") => MarkComplete
       /\ (phase' = "verification" /\ phase # "verification") =>
            (utterances' = utterances + 1 /\ lastUserResponse' \in WakeDeclarations)
       /\ (\/ silences' = silences + 1
           \/ utterances' = utterances + 1 /\ lastUserResponse' \notin WakeDeclarations) =>
            (phase' = phase \/ phase' \in {"soft_chat", "encouragement", "movement"})
       /\ IsComplete' <=> phase' = "complete"
      ]_vars

\* nine silences in a row have brought the session to movement, where it stays
C35_Witness ==
    /\ phase = "movement"
    /\ silenceCount = 9
    /\ responsiveness = "silent"
    /\ ~completeMarked

\* C36: generateInstruction appends the weather, calendar or news line of the
\* context, verbatim, if and only if the context string is not empty and the
\* preference is true when it is called; an utterance with a skip-news
\* (skip-weather) command leaves the preference false and a false preference
\* stays false, so that no later instruction of the session has that line.
C36_ContextFields ==
    /\ [][served' = served + 1 =>
            /\ brainInstruction'.weatherInfo =
                    (IF context.weather \notin {Undefined, ""} /\ preferences.includeWeather
                     THEN context.weather ELSE Undefined)
            /\ brainInstruction'.calendarInfo =
                    (IF context.calendar \notin {Undefined, ""} /\ preferences.includeCalendar
                     THEN context.calendar ELSE Undefined)
            /\ brainInstruction'.newsInfo =
                    (IF context.news \notin {Undefined, ""} /\ preferences.includeNews
                     THEN context.news ELSE Undefined)
         ]_vars
    /\ [][/\ lastUserResponse' \in SkipNewsTranscripts => ~preferences'.includeNews
          /\ lastUserResponse' \in SkipWeatherTranscripts => ~preferences'.includeWeather
          /\ ~preferences.includeNews => ~preferences'.includeNews
          /\ ~preferences.includeWeather => ~preferences'.includeWeather
         ]_vars
    /\ [](brainInstruction.kind = "brain" =>
            /\ brainInstruction.newsInfo # Undefined => preferences.includeNews
            /\ brainInstruction.weatherInfo # Undefined => preferences.includeWeather)

\* after "Skip news", an instruction of a session that has news and weather in
\* its context carries the weather line and no news line
C36_Witness ==
    /\ lastUserResponse = T_SkipNews
    /\ brainInstruction.kind = "brain"
    /\ Truthy(context.news)
    /\ brainInstruction.newsInfo = Undefined
    /\ brainInstruction.weatherInfo = context.weather
    /\ Truthy(context.weather)

\* C37: the engine has at most one operation in flight: while a
\* generateSegmentContent or handleUserSpeech call is in flight isProcessing is
\* true, a further generateSegmentContent is rejected with 'Already processing'
\* and a further handleUserSpeech returns null, neither clears the flag, and
\* the flag is false once the call in flight has ended, whether it succeeded
\* or threw.
C37_OneOperationInFlight ==
    /\ [](/\ Cardinality(TrackInFlight) <= 1
          /\ trackIsProcessing <=> TrackInFlight # {})
    /\ [][\A r \in Slots :
            /\ (TrackInFlight # {} /\ GenerateSegmentContent(r)) =>
                    /\ trackCalls'[r] = [kind |-> "idle", pc |-> "idle",
                                         outcome |-> "Already processing"]
                    /\ trackIsProcessing'
                    /\ TrackInFlight' = TrackInFlight
            /\ (TrackInFlight # {} /\ HandleUserSpeech(r)) =>
                    /\ trackCalls'[r] = [kind |-> "idle", pc |-> "idle", outcome |-> "null"]
                    /\ trackIsProcessing'
                    /\ TrackInFlight' = TrackInFlight
         ]_vars

\* a generateSegmentContent call has been rejected while a handleUserSpeech
\* call awaits its transcription, and the flag is still set
C37_Witness ==
    /\ trackCalls[1].kind = "speech"
    /\ trackCalls[1].pc = "transcribing"
    /\ trackCalls[2].outcome = "Already processing"
    /\ trackIsProcessing

\* C38: a handleSilence call made while another operation is in flight fails
\* with 'Already processing' and leaves the engine state as it was:
\* currentSegmentIndex, conversationMode, justExitedConversation and
\* recentConversation keep their values.
C38_FailedSilenceChangesNothing ==
    [][\A r \in Slots :
            (TrackInFlight # {} /\ HandleSilence(r)) =>
                /\ trackCalls'[r].outcome = "Already processing"
                /\ UNCHANGED <<currentSegmentIndex, conversationMode,
                               justExitedConversation, recentConversation>>
      ]_vars

\* the tokens of devices, and the counter the routes keep for a device
DeviceTokens == {t \in DeviceTokenInputs : Truthy(t)}

CounterOf(device_token) ==
    IF HashDeviceToken(device_token) \in DOMAIN deviceStore
    THEN deviceStore[HashDeviceToken(device_token)]
    ELSE 0

\* C39: the free-session counter of a device starts at 0; /device/update with
\* increment_session true adds exactly 1 to it until it is 2, where it stays;
\* it is never above 2 and never decreases; /device/status and /device/update
\* without increment_session leave it as it is; and a request for one device
\* token leaves the counters of the other tokens as they are.
C39_FreeSessionCounter ==
    [][/\ \A t \in DeviceTokens :
            /\ CounterOf(t) \in 0..2
            /\ CounterOf(t)' \in 0..2
            /\ CounterOf(t)' >= CounterOf(t)
            /\ deviceResponse.status = 0 => CounterOf(t) = 0
            /\ DeviceUpdate(t, "true") =>
                 /\ CounterOf(t)' = IF CounterOf(t) < 2 THEN CounterOf(t) + 1 ELSE 2
                 /\ deviceResponse'.free_sessions_used = CounterOf(t)'
                 /\ \A other \in DeviceTokens \ {t} :
                        CounterOf(other)' = CounterOf(other)
            /\ DeviceStatus(t) =>
                 /\ deviceResponse'.free_sessions_used = CounterOf(t)
                 /\ \A any \in DeviceTokens : CounterOf(any)' = CounterOf(any)
            /\ \A increment_session \in IncrementInputs \ {"true"} :
                 DeviceUpdate(t, increment_session) =>
                     \A any \in DeviceTokens : CounterOf(any)' = CounterOf(any)
       /\ \A t \in DeviceTokenInputs \ DeviceTokens :
            \A increment_session \in IncrementInputs :
                DeviceStatus(t) \/ DeviceUpdate(t, increment_session) =>
                    \A any \in DeviceTokens : CounterOf(any)' = CounterOf(any)
      ]_vars

\* an increment answered with the cap: one device at 2, one at 1, one never seen
C39_Witness ==
    /\ CounterOf("device-a") = 2
    /\ CounterOf("device-b") = 1
    /\ HashDeviceToken("device-c") \notin DOMAIN deviceStore
    /\ deviceResponse = [status |-> 200, success |-> TRUE, free_sessions_used |-> 2]

====
